---- MODULE Spec2Model ----
(***************************************************************************)
(* school_app.py: the grade aggregation (calculate_average_v3 and the       *)
(* year-final aggregation its callers perform over grading periods), the   *)
(* pass / fail marks of the gradebook views, the DatabaseManager operations *)
(* on grading categories, assignments, submissions and grades, its cached   *)
(* readers, the connection checkout of get_connection, the four gradebook  *)
(* views drawn from the same rows, the page runs of concurrent sessions,   *)
(* registration and login, join requests, and the deletion of assignments  *)
(* and classes under the foreign keys of the schema.                       *)
(*                                                                         *)
(* Numbers.  Python computes with floats; the model computes with exact    *)
(* rationals <<n, d>> (d > 0, lowest terms), so "equal" below means equal  *)
(* as real numbers and floating-point rounding error is not modelled.      *)
(* A nullable value is None (<<>>) or Some(x) (<<x>>).                     *)
(***************************************************************************)
EXTENDS Integers, Sequences, FiniteSets, TLC

VARIABLES
    grades,         \* the list of grade rows handed to the calculator / fetched by a view
    categories,     \* the list of grading_categories rows of the subject-offering
    sys,            \* evaluation_system of the class
    pc,             \* which step has run
    result,         \* what calculate_average_v3 returned for (grades, categories)
    prev,           \* what it returned for the inputs before an orphan was added / the list reordered
    p_avgs,         \* the per-period finals a year-final view collected
    cell_val        \* the year-final figure of the view (None when the view shows none)

VARIABLES
    passing_grade,  \* classes.passing_grade of the class
    sel_p_mode,     \* the period selected in a gradebook view (0: Year Final)
    status          \* the pass/fail mark the view shows (None when it shows none)

VARIABLES
    frames          \* the local variables of each running call of calculate_average_v3

VARIABLES
    db,             \* the tables grading_categories, assignments, submissions, grades and their serials
    last_op         \* the last DatabaseManager operation or view that ran, its arguments and outcome

VARIABLES
    cache           \* what st.cache_data holds for each cached reader and argument

VARIABLES
    conns,          \* the connections of the pool: closed, idle in the pool, or checked out
    sessions        \* each thread's position around a "with get_connection()" block

VARIABLES
    shown,          \* what each gradebook view drew last: its figure and its threshold
    users,          \* the users table
    session_state,  \* st.session_state of each browser session
    school,         \* the tables of classes, their members, requests and contents
    txn             \* each session's position inside a page or a DatabaseManager call

calcVars == <<grades, categories, sys, pc, result, prev, p_avgs, cell_val>>
viewVars == <<passing_grade, sel_p_mode, status>>
callVars == <<frames>>
dbVars == <<db, last_op, cache>>
poolVars == <<conns, sessions>>
siteVars == <<shown, users, session_state, school, txn>>

\* the state behind the DatabaseManager, and the state of the pages in front of it
backVars == <<dbVars, poolVars, siteVars>>
frontVars == <<calcVars, viewVars, callVars>>

\* the variables the calculator's calls and the year-final views leave alone
extVars == <<viewVars, callVars, backVars>>

\* the variables the pass / fail views leave alone
gradebookRest == <<callVars, backVars>>

\* the variables a call of calculate_average_v3 leaves alone
callsRest == <<calcVars, viewVars, backVars>>

\* the variables the operations on the tables leave alone
dbRest == <<frontVars, poolVars, siteVars>>

\* the variables a "with get_connection()" block leaves alone
poolRest == <<frontVars, dbVars, siteVars>>

vars == <<calcVars, viewVars, callVars, backVars>>

----------------------------------------------------------------------------
\* Bounds and input domains

MaxGrades == 3

GradeVals == {6, 8, 9}
CatIds == {1, 2}
OrphanIds == {3}
Names == {"Homework", "Exams"}
Weights == {-60, 0, 40, 60}
Systems == {"semesters", "trimesters"}

None == <<>>
Some(x) == <<x>>

----------------------------------------------------------------------------
\* Exact rational arithmetic standing in for Python's float arithmetic

Abs(n) == IF n < 0 THEN -n ELSE n

RECURSIVE GCD(_, _)
GCD(a, b) == IF b = 0 THEN a ELSE GCD(b, a % b)

\* d > 0
Norm(n, d) ==
    LET g == GCD(Abs(n), d)
    IN  IF n < 0 THEN << -(Abs(n) \div g), d \div g >> ELSE << n \div g, d \div g >>

Rat(n) == <<n, 1>>
Zero == Rat(0)
RatAdd(p, q) == Norm(p[1] * q[2] + q[1] * p[2], p[2] * q[2])
RatMulInt(p, k) == Norm(p[1] * k, p[2])
RatLeq(p, q) == p[1] * q[2] <= q[1] * p[2]
RatSub(p, q) == RatAdd(p, <<-q[1], q[2]>>)
RatAbs(p) == <<Abs(p[1]), p[2]>>

\* x / k as Python evaluates it: ZeroDivisionError when k = 0
Divide(p, k) ==
    IF k = 0 THEN [raised |-> TRUE, value |-> Zero]
    ELSE IF k > 0 THEN [raised |-> FALSE, value |-> Norm(p[1], p[2] * k)]
    ELSE [raised |-> FALSE, value |-> Norm(-p[1], p[2] * (-k))]

\* sum(xs) of a list of rationals
RECURSIVE sum(_)
sum(xs) == IF xs = <<>> THEN Zero ELSE RatAdd(Head(xs), sum(Tail(xs)))

----------------------------------------------------------------------------
\* calculate_average_v3

\* valid_grades with a null grade counted as 0 instead of left out
RECURSIVE valid_grades_NullAsZero(_)
valid_grades_NullAsZero(gs) ==
    IF gs = <<>> THEN <<>>
    ELSE <<IF Head(gs).grade # None THEN Rat(Head(gs).grade[1]) ELSE Zero>>
         \o valid_grades_NullAsZero(Tail(gs))

\* valid_grades with the rows of no category left out
RECURSIVE valid_grades_OnlyCategorised(_)
valid_grades_OnlyCategorised(gs) ==
    IF gs = <<>> THEN <<>>
    ELSE IF Head(gs).grade # None /\ Head(gs).category_id # None
         THEN <<Rat(Head(gs).grade[1])>> \o valid_grades_OnlyCategorised(Tail(gs))
         ELSE valid_grades_OnlyCategorised(Tail(gs))

\* [g['grade'] for g in grades if g['grade'] is not None]
RECURSIVE valid_grades(_)
valid_grades(gs) ==
    IF gs = <<>> THEN <<>>
    ELSE IF Head(gs).grade # None
         THEN <<Rat(Head(gs).grade[1])>> \o valid_grades(Tail(gs))
         ELSE valid_grades(Tail(gs))

\* Matches with rows of no category counted in every category
Matches_NullCategoryEverywhere(g, cat) ==
    (g.category_id = Some(cat.id) \/ g.category_id = None) /\ g.grade # None

\* g['category_id'] == cat['id'] and g['grade'] is not None
Matches(g, cat) == g.category_id = Some(cat.id) /\ g.grade # None

\* c_grades with a null grade of the category counted as 0 instead of left out
RECURSIVE c_grades_NullAsZero(_, _)
c_grades_NullAsZero(gs, cat) ==
    IF gs = <<>> THEN <<>>
    ELSE IF Head(gs).category_id = Some(cat.id)
         THEN <<IF Head(gs).grade # None THEN Rat(Head(gs).grade[1]) ELSE Zero>>
              \o c_grades_NullAsZero(Tail(gs), cat)
         ELSE c_grades_NullAsZero(Tail(gs), cat)

\* [g['grade'] for g in grades if g['category_id'] == cat['id'] and g['grade'] is not None]
RECURSIVE c_grades(_, _)
c_grades(gs, cat) ==
    IF gs = <<>> THEN <<>>
    ELSE IF Matches(Head(gs), cat)
         THEN <<Rat(Head(gs).grade[1])>> \o c_grades(Tail(gs), cat)
         ELSE c_grades(Tail(gs), cat)

\* cat_averages[name] = value on a dict: a later assignment to the same key replaces the value
DictSet(d, name, value) == (name :> value) @@ d

EmptyDict == [n \in {} |-> None]

\* HasGrades with the emptiness test dropped
HasGrades_Unguarded(xs) == TRUE

\* the truth test of the list that guards the division by its length
HasGrades(xs) == xs # <<>>

\* LoopBody with a category without grades recorded as 0.0 instead of None
LoopBody_ZeroForEmpty(acc, gs, cat) ==
    LET cg == c_grades(gs, cat)
        avg == Divide(sum(cg), Len(cg))
    IN  IF HasGrades(cg)
        THEN [cat_averages |-> DictSet(acc.cat_averages, cat.name, Some(avg.value)),
              total_weight_used |-> acc.total_weight_used + cat.weight,
              calculated_score |-> RatAdd(acc.calculated_score, RatMulInt(avg.value, cat.weight)),
              raised |-> acc.raised \/ avg.raised]
        ELSE [acc EXCEPT !.cat_averages = DictSet(acc.cat_averages, cat.name, Some(Zero))]

\* LoopBody with the weight of a category without grades still added to total_weight_used
LoopBody_WeightOfEmptyCounted(acc, gs, cat) ==
    LET cg == c_grades(gs, cat)
        avg == Divide(sum(cg), Len(cg))
    IN  IF HasGrades(cg)
        THEN [cat_averages |-> DictSet(acc.cat_averages, cat.name, Some(avg.value)),
              total_weight_used |-> acc.total_weight_used + cat.weight,
              calculated_score |-> RatAdd(acc.calculated_score, RatMulInt(avg.value, cat.weight)),
              raised |-> acc.raised \/ avg.raised]
        ELSE [acc EXCEPT !.cat_averages = DictSet(acc.cat_averages, cat.name, None),
                         !.total_weight_used = acc.total_weight_used + cat.weight]

\* one turn of "for cat in categories"; acc = [cat_averages, total_weight_used, calculated_score, raised]
LoopBody(acc, gs, cat) ==
    LET cg == c_grades(gs, cat)
        avg == Divide(sum(cg), Len(cg))
    IN  IF HasGrades(cg)
        THEN [cat_averages |-> DictSet(acc.cat_averages, cat.name, Some(avg.value)),
              total_weight_used |-> acc.total_weight_used + cat.weight,
              calculated_score |-> RatAdd(acc.calculated_score, RatMulInt(avg.value, cat.weight)),
              raised |-> acc.raised \/ avg.raised]
        ELSE [acc EXCEPT !.cat_averages = DictSet(acc.cat_averages, cat.name, None)]

RECURSIVE Loop(_, _, _)
Loop(acc, gs, cats) ==
    IF cats = <<>> THEN acc ELSE Loop(LoopBody(acc, gs, Head(cats)), gs, Tail(cats))

\* WeightUsed with >= for >
WeightUsed_NonNegative(total_weight_used) == total_weight_used >= 0

\* the guard of the final division
WeightUsed(total_weight_used) == total_weight_used > 0

calculate_average_v3(gs, cats) ==
    IF cats = <<>>
    THEN LET vg == valid_grades(gs)
             m == Divide(sum(vg), Len(vg))
         IN  IF HasGrades(vg)
             THEN [raised |-> m.raised, final_score |-> m.value, cat_averages |-> EmptyDict]
             ELSE [raised |-> FALSE, final_score |-> Zero, cat_averages |-> EmptyDict]
    ELSE LET acc == Loop([cat_averages |-> EmptyDict, total_weight_used |-> 0,
                          calculated_score |-> Zero, raised |-> FALSE], gs, cats)
             q == Divide(acc.calculated_score, acc.total_weight_used)
         IN  IF WeightUsed(acc.total_weight_used)
             THEN [raised |-> acc.raised \/ q.raised, final_score |-> q.value,
                   cat_averages |-> acc.cat_averages]
             ELSE [raised |-> acc.raised, final_score |-> Zero,
                   cat_averages |-> acc.cat_averages]

----------------------------------------------------------------------------
\* Inputs

GradeOptions == {None} \cup {Some(g) : g \in GradeVals}
CategoryIdOptions == {None} \cup {Some(i) : i \in CatIds}

GradeRecords(periods) ==
    [grade : GradeOptions, category_id : CategoryIdOptions, period : periods]

\* The fetched rows come in no order the code relies on: the initial lists are one
\* list per multiset of rows (rows in rank order); AddOrphan appends out of order.
Rank(r) ==
    ((IF r.grade = None THEN 0 ELSE r.grade[1]) * 10
      + (IF r.category_id = None THEN 0 ELSE r.category_id[1])) * 10 + r.period

RECURSIVE GradeLists(_, _)
GradeLists(R, n) ==
    IF n = 0 THEN {<<>>}
    ELSE LET shorter == GradeLists(R, n - 1)
         IN  shorter \cup
             {Append(s, r) : <<s, r>> \in
                 {x \in shorter \X R :
                     /\ Len(x[1]) = n - 1
                     /\ (x[1] = <<>> \/ Rank(x[1][Len(x[1])]) <= Rank(x[2]))}}

CategoryRows == [id : CatIds, name : Names, weight : Weights]

\* grading_categories rows of one subject-offering: ids are a primary key
CategoryLists ==
    {s \in UNION {[1..n -> CategoryRows] : n \in 0..Cardinality(CatIds)} :
        \A i \in 1..(Len(s) - 1) : s[i].id < s[i + 1].id}

CategoryIds(cats) == {cats[i].id : i \in 1..Len(cats)}

\* a category_id that is the id of no category of the list
IsOrphan(c, cats) == c \notin {Some(i) : i \in CategoryIds(cats)}

NoResult == [raised |-> FALSE, final_score |-> Zero, cat_averages |-> EmptyDict]

\* no gradebook view is open
ViewIdle ==
    /\ passing_grade = Rat(6)
    /\ sel_p_mode = 0
    /\ status = None

\* no call is being traced statement by statement
CallsIdle == frames = <<>>

\* no page has fetched or computed anything
CalcIdle ==
    /\ grades = <<>>
    /\ categories = <<>>
    /\ sys = "annual"
    /\ pc = "input"
    /\ result = NoResult
    /\ prev = NoResult
    /\ p_avgs = <<>>
    /\ cell_val = None

CourseSubjects == {1, 2}
CachedReaders == {"get_grading_categories", "get_course_subject_assignments",
                  "get_class_gradebook"}

\* nothing cached
NoCache == [fn \in CachedReaders |-> [cs \in CourseSubjects |-> None]]

NoOperation == [op |-> "none", args |-> <<>>, out |-> "ok"]

\* the tables as init_db creates them: empty, every serial unused
DbIdle ==
    /\ db = [grading_categories |-> {}, assignments |-> {}, submissions |-> {}, grades |-> {},
             seq |-> [grading_categories |-> 0, assignments |-> 0, submissions |-> 0, grades |-> 0]]
    /\ last_op = NoOperation
    /\ cache = NoCache

MaxConn == 2
minconn == 1

ConnIds == 1..MaxConn
Threads == 1..(MaxConn + 1)

NewSession == [at |-> "outside", conn |-> None, open |-> FALSE, outcome |-> "none",
               ended |-> "none", raised |-> FALSE, puts |-> 0]

\* ThreadedConnectionPool(1, 20, db_url): minconn connections opened, none checked out
PoolIdle ==
    /\ conns = [c \in ConnIds |->
                  [state |-> IF c <= minconn THEN "idle" ELSE "closed",
                   tx |-> "idle", holder |-> None]]
    /\ sessions = [t \in Threads |-> NewSession]

\* no page of the site is open and its tables are not looked at
SiteIdle ==
    /\ shown = <<>>
    /\ users = {}
    /\ session_state = <<>>
    /\ school = <<>>
    /\ txn = <<>>

BackIdle == DbIdle /\ PoolIdle /\ SiteIdle

FrontIdle == CalcIdle /\ ViewIdle /\ CallsIdle

DbRestIdle == FrontIdle /\ PoolIdle /\ SiteIdle

PoolRestIdle == FrontIdle /\ DbIdle /\ SiteIdle

ExtIdle == ViewIdle /\ CallsIdle /\ BackIdle

GradebookRestIdle == CallsIdle /\ BackIdle

----------------------------------------------------------------------------
\* Calls of the calculator

Init ==
    /\ grades \in GradeLists(GradeRecords({1}), MaxGrades)
    /\ categories \in CategoryLists
    /\ sys = "annual"
    /\ pc = "input"
    /\ result = NoResult
    /\ prev = NoResult
    /\ p_avgs = <<>>
    /\ cell_val = None
    /\ ExtIdle

\* final, cat_avgs = calculate_average_v3(grades, categories)
Calculate ==
    /\ pc = "input"
    /\ result' = calculate_average_v3(grades, categories)
    /\ pc' = "calculated"
    /\ UNCHANGED <<grades, categories, sys, prev, p_avgs, cell_val>>
    /\ UNCHANGED extVars

\* a second call, with one more row whose category_id is the id of no category of the list
AddOrphan ==
    /\ pc = "calculated"
    /\ Len(grades) < MaxGrades
    /\ \E g \in GradeOptions, c \in {None} \cup {Some(i) : i \in CatIds \cup OrphanIds} :
          /\ IsOrphan(c, categories)
          /\ grades' = Append(grades, [grade |-> g, category_id |-> c, period |-> 1])
    /\ prev' = result
    /\ result' = calculate_average_v3(grades', categories)
    /\ pc' = "orphan_added"
    /\ UNCHANGED <<categories, sys, p_avgs, cell_val>>
    /\ UNCHANGED extVars

\* a second call, with the same categories in another order
Reorder ==
    /\ pc = "calculated"
    /\ Len(categories) > 1
    /\ \E f \in Permutations(1..Len(categories)) :
          /\ categories' = [i \in 1..Len(categories) |-> categories[f[i]]]
          /\ categories' # categories
    /\ prev' = result
    /\ result' = calculate_average_v3(grades, categories')
    /\ pc' = "reordered"
    /\ UNCHANGED <<grades, sys, p_avgs, cell_val>>
    /\ UNCHANGED extVars

\* a second call, with one more row whose grade is NULL, of any category_id
AddUngraded ==
    /\ pc = "calculated"
    /\ Len(grades) < MaxGrades
    /\ \E c \in {None} \cup {Some(i) : i \in CatIds \cup OrphanIds} :
          grades' = Append(grades, [grade |-> None, category_id |-> c, period |-> 1])
    /\ prev' = result
    /\ result' = calculate_average_v3(grades', categories)
    /\ pc' = "ungraded_added"
    /\ UNCHANGED <<categories, sys, p_avgs, cell_val>>
    /\ UNCHANGED extVars

Next == Calculate \/ AddOrphan \/ Reorder \/ AddUngraded

Spec == Init /\ [][Next]_vars

----------------------------------------------------------------------------
\* What the properties below measure the results against: means taken over
\* index sets of the input lists, not through the calculator's loop.

Computed == pc \in {"calculated", "orphan_added", "reordered", "ungraded_added"}

Indices(xs) == 1..Len(xs)

\* the rows of gs that belong to category cat and carry a grade
MatchIdx(gs, cat) ==
    {i \in Indices(gs) : gs[i].category_id = Some(cat.id) /\ gs[i].grade # None}

\* the rows of gs that carry a grade
GradedIdx(gs) == {i \in Indices(gs) : gs[i].grade # None}

RECURSIVE SumAt(_, _)
SumAt(gs, I) ==
    IF I = {} THEN 0
    ELSE LET i == CHOOSE x \in I : TRUE IN gs[i].grade[1] + SumAt(gs, I \ {i})

\* the arithmetic mean of the grades at the (non-empty) index set I
MeanAt(gs, I) == Norm(SumAt(gs, I), Cardinality(I))

HasData(gs, cat) == MatchIdx(gs, cat) # {}

\* the categories of cats that have data
WithData(gs, cats) == {j \in Indices(cats) : HasData(gs, cats[j])}

RECURSIVE WeightSum(_, _)
WeightSum(cats, J) ==
    IF J = {} THEN 0
    ELSE LET j == CHOOSE x \in J : TRUE IN cats[j].weight + WeightSum(cats, J \ {j})

\* sum over the categories J of (mean of the category's grades * weight)
RECURSIVE WeightedSum(_, _, _)
WeightedSum(gs, cats, J) ==
    IF J = {} THEN Zero
    ELSE LET j == CHOOSE x \in J : TRUE
         IN  RatAdd(RatMulInt(MeanAt(gs, MatchIdx(gs, cats[j])), cats[j].weight),
                    WeightedSum(gs, cats, J \ {j}))

IsRat(q) == /\ q \in Int \X Int
            /\ q[2] > 0

----------------------------------------------------------------------------
\* C1: with non-empty categories whose weights sum to 100 and data in every
\* category, final_score is sum(category mean * weight) / 100 and
\* category_averages maps every category's name to that category's mean.
C1_WeightedMeanOfCategories ==
    (/\ Computed
     /\ categories # <<>>
     /\ WeightSum(categories, Indices(categories)) = 100
     /\ WithData(grades, categories) = Indices(categories))
    => /\ ~result.raised
       /\ result.final_score
            = Divide(WeightedSum(grades, categories, Indices(categories)), 100).value
       /\ \A j \in Indices(categories) :
            result.cat_averages[categories[j].name]
              = Some(MeanAt(grades, MatchIdx(grades, categories[j])))

\* C2: with non-empty categories, a category without data is recorded as none
\* and the final score is score / weight_used over the categories with data.
C2_EmptyCategoryIsNone ==
    (Computed /\ categories # <<>>)
    => LET J == WithData(grades, categories)
       IN  /\ \A j \in Indices(categories) \ J :
                result.cat_averages[categories[j].name] = None
           /\ WeightSum(categories, J) > 0
                => result.final_score
                     = Divide(WeightedSum(grades, categories, J),
                              WeightSum(categories, J)).value

\* C1 and C2 fail only where two categories of the list carry the same name, so
\* that the later one replaces the earlier one's entry: with distinct names both hold.
DistinctNames ==
    \A i, j \in Indices(categories) : categories[i].name = categories[j].name => i = j

C1_HoldsForDistinctNames == DistinctNames => C1_WeightedMeanOfCategories
C2_HoldsForDistinctNames == DistinctNames => C2_EmptyCategoryIsNone

\* C3: with no categories and at least one graded row, final_score is the plain
\* mean of all graded rows, whatever their category_id, and the mapping is empty.
C3_PlainMeanFallback ==
    (Computed /\ categories = <<>> /\ GradedIdx(grades) # {})
    => /\ ~result.raised
       /\ result.final_score = MeanAt(grades, GradedIdx(grades))
       /\ result.cat_averages = EmptyDict

C3_Witness ==
    /\ pc = "calculated"
    /\ categories = <<>>
    /\ \E i, k \in GradedIdx(grades) : grades[i].category_id # grades[k].category_id
    /\ \E i \in Indices(grades) : grades[i].grade = None
    /\ result.final_score = <<17, 2>>

\* C4: with no categories and no graded row (no rows at all, or null grades
\* only), final_score is 0.0 and the mapping is empty.
C4_NoGradesNoCategories ==
    (Computed /\ categories = <<>> /\ GradedIdx(grades) = {})
    => /\ ~result.raised
       /\ result.final_score = Zero
       /\ result.cat_averages = EmptyDict

C4_Witness ==
    /\ pc = "calculated"
    /\ categories = <<>>
    /\ Len(grades) = 2
    /\ GradedIdx(grades) = {}
    /\ result.final_score = Zero

\* C5: with non-empty categories none of which has data, final_score is 0.0 and
\* the mapping has one entry per category name, each of them none.
C5_AllCategoriesEmpty ==
    (Computed /\ categories # <<>> /\ WithData(grades, categories) = {})
    => /\ ~result.raised
       /\ result.final_score = Zero
       /\ DOMAIN result.cat_averages = {categories[j].name : j \in Indices(categories)}
       /\ \A n \in DOMAIN result.cat_averages : result.cat_averages[n] = None

C5_Witness ==
    /\ pc = "calculated"
    /\ Len(categories) = 2
    /\ categories[1].name # categories[2].name
    /\ WithData(grades, categories) = {}
    /\ GradedIdx(grades) # {}
    /\ Cardinality(DOMAIN result.cat_averages) = 2

\* C6 as claimed: for any grades and any categories, adding an orphan row
\* changes neither final_score nor any category_averages entry.
C6_OrphanNeverChanges ==
    pc = "orphan_added"
    => /\ result.final_score = prev.final_score
       /\ result.cat_averages = prev.cat_averages

\* C6 as amended: the same, when categories is non-empty or the orphan row
\* carries no grade.
C6_OrphanIgnoredByCategories ==
    (/\ pc = "orphan_added"
     /\ categories # <<>> \/ grades[Len(grades)].grade = None)
    => /\ result.final_score = prev.final_score
       /\ result.cat_averages = prev.cat_averages

C6_Witness ==
    /\ pc = "orphan_added"
    /\ Len(categories) = 2
    /\ grades[Len(grades)].grade = Some(6)
    /\ grades[Len(grades)].category_id = None
    /\ WithData(grades, categories) = Indices(categories)
    /\ result.final_score = <<36, 5>>

\* C7: the calculator is total: for every input, whatever the weights, it
\* returns a number and a mapping over the category names and raises nothing.
C7_Total ==
    Computed
    => /\ ~result.raised
       /\ IsRat(result.final_score)
       /\ DOMAIN result.cat_averages = {categories[j].name : j \in Indices(categories)}
       /\ \A n \in DOMAIN result.cat_averages :
            result.cat_averages[n] = None \/ IsRat(result.cat_averages[n][1])

C7_Witness ==
    /\ pc = "calculated"
    /\ Len(categories) = 2
    /\ WithData(grades, categories) = Indices(categories)
    /\ WeightSum(categories, Indices(categories)) = 0
    /\ categories[1].weight < 0
    /\ result.final_score = Zero

\* C8: for any grades and any two orders of the same categories, final_score
\* and the name-to-value contents of category_averages are the same.
C8_CategoryOrderIrrelevant ==
    pc = "reordered"
    => /\ result.final_score = prev.final_score
       /\ result.cat_averages = prev.cat_averages

\* C8 fails only through the mapping of same-named categories: final_score never
\* depends on the order, and with distinct names neither does the mapping.
C8_HoldsForDistinctNames == DistinctNames => C8_CategoryOrderIrrelevant
C8_FinalScoreOrderIrrelevant == pc = "reordered" => result.final_score = prev.final_score

\* C12: a row with a NULL category_id belongs to no category: with non-empty
\* categories it changes neither a category average nor final_score; with empty
\* categories it is counted in the plain mean.
C12_NullCategoryRow ==
    (/\ pc = "orphan_added"
     /\ grades[Len(grades)].category_id = None)
    => IF categories # <<>>
       THEN /\ result.cat_averages = prev.cat_averages
            /\ result.final_score = prev.final_score
       ELSE grades[Len(grades)].grade # None
              => /\ Len(grades) \in GradedIdx(grades)
                 /\ result.final_score = MeanAt(grades, GradedIdx(grades))
                 /\ RatMulInt(result.final_score, Cardinality(GradedIdx(grades)))
                      = RatAdd(RatMulInt(prev.final_score, Cardinality(GradedIdx(grades)) - 1),
                               Rat(grades[Len(grades)].grade[1]))

C12_Witness ==
    /\ pc = "orphan_added"
    /\ categories = <<>>
    /\ grades[Len(grades)] = [grade |-> Some(9), category_id |-> None, period |-> 1]
    /\ prev.final_score = Rat(6)
    /\ result.final_score = <<15, 2>>

C12_WitnessWithCategories ==
    /\ pc = "orphan_added"
    /\ Len(categories) = 2
    /\ grades[Len(grades)] = [grade |-> Some(9), category_id |-> None, period |-> 1]
    /\ WithData(grades, categories) # {}
    /\ result.final_score = Rat(6)

\* C13: rows with a NULL grade are ignored: adding one changes neither
\* final_score nor category_averages, with empty and with non-empty categories.
C13_NullGradeIgnored ==
    pc = "ungraded_added"
    => /\ result.final_score = prev.final_score
       /\ result.cat_averages = prev.cat_averages

C13_Witness ==
    /\ pc = "ungraded_added"
    /\ categories # <<>>
    /\ grades[Len(grades)].category_id = Some(categories[1].id)
    /\ HasData(grades, categories[1])
    /\ result.final_score = Rat(8)

C13_WitnessNoCategories ==
    /\ pc = "ungraded_added"
    /\ categories = <<>>
    /\ result.final_score = Rat(8)

----------------------------------------------------------------------------
\* Bounds on final_score

WeightsInFormRange(cats) == \A j \in Indices(cats) : cats[j].weight \in 0..100

\* the means of the categories that have data, one per category
CategoryMeans(gs, cats) ==
    {MeanAt(gs, MatchIdx(gs, cats[j])) : j \in WithData(gs, cats)}

Between(q, S) ==
    /\ \E lo \in S : RatLeq(lo, q)
    /\ \E hi \in S : RatLeq(q, hi)

\* C20 as claimed: with every weight in 0..100 and data in at least one
\* category, final_score lies between the smallest and the largest category
\* average (and so within [0, 10] for grades in [0, 10]).
C20_FinalScoreBetweenAverages ==
    (/\ Computed
     /\ WeightsInFormRange(categories)
     /\ WithData(grades, categories) # {})
    => /\ Between(result.final_score, CategoryMeans(grades, categories))
       /\ RatLeq(Zero, result.final_score) /\ RatLeq(result.final_score, Rat(10))

\* C20 as amended: the same, when a category that has data has a weight above
\* 0; when all categories with data weigh 0 the final score is 0.0.
C20_BetweenAveragesWhenWeighted ==
    (/\ Computed
     /\ WeightsInFormRange(categories)
     /\ WithData(grades, categories) # {})
    => /\ (\E j \in WithData(grades, categories) : categories[j].weight > 0)
            => Between(result.final_score, CategoryMeans(grades, categories))
       /\ (\A j \in WithData(grades, categories) : categories[j].weight = 0)
            => result.final_score = Zero
       /\ RatLeq(Zero, result.final_score) /\ RatLeq(result.final_score, Rat(10))

C20_Witness ==
    /\ pc = "calculated"
    /\ Len(categories) = 2
    /\ categories[1].weight = 40 /\ categories[2].weight = 60
    /\ CategoryMeans(grades, categories) = {Rat(6), Rat(9)}
    /\ result.final_score = <<39, 5>>

----------------------------------------------------------------------------
\* Year-final aggregation by the gradebook views (semesters, trimesters)

\* num_p = 2 if sys == 'semesters' else 3
num_p(system) == IF system = "semesters" THEN 2 ELSE 3

\* [g for g in raw_grades if g['period'] == p]
RECURSIVE p_grades(_, _)
p_grades(raw_grades, p) ==
    IF raw_grades = <<>> THEN <<>>
    ELSE IF Head(raw_grades).period = p
         THEN <<Head(raw_grades)>> \o p_grades(Tail(raw_grades), p)
         ELSE p_grades(Tail(raw_grades), p)

\* HasRows with every period taken, a period without rows entering as 0.0
HasRows_ZeroFill(rows) == TRUE

\* HasRows with a period skipped unless one of its rows carries a grade
HasRows_SkipUngraded(rows) == valid_grades(rows) # <<>>

\* "if p_grades:" - the period has at least one fetched row
HasRows(rows) == rows # <<>>

\* for p in range(p, num_p + 1): if p_grades: p_avgs.append(calculate_average_v3(p_grades, cats)[0])
RECURSIVE PeriodLoop(_, _, _, _)
PeriodLoop(raw_grades, cats, p, last) ==
    IF p > last THEN <<>>
    ELSE LET rows == p_grades(raw_grades, p)
         IN  (IF HasRows(rows)
              THEN <<calculate_average_v3(rows, cats).final_score>>
              ELSE <<>>) \o PeriodLoop(raw_grades, cats, p + 1, last)

\* sum(p_avgs) / len(p_avgs)
MeanOfPeriods(avgs) == Divide(sum(avgs), Len(avgs)).value

\* round(x, 2): the nearest hundredth; on an exact tie Python decides by the
\* binary value of the float, which the rationals do not tell: either neighbour
Round2(x) ==
    LET f == (100 * x[1]) \div x[2]
        r == 100 * x[1] - f * x[2]
    IN  IF 2 * r < x[2] THEN {Norm(f, 100)}
        ELSE IF 2 * r > x[2] THEN {Norm(f + 1, 100)}
        ELSE {Norm(f, 100), Norm(f + 1, 100)}

\* cell_val = round(sum(p_avgs) / len(p_avgs), 2) if p_avgs else 0.0
GlobalCell(avgs) ==
    IF avgs # <<>> THEN {Some(v) : v \in Round2(MeanOfPeriods(avgs))} ELSE {Some(Zero)}

\* My Grades: year_final = sum(p_summaries) / len(p_summaries), shown only "if p_summaries"
MyGradesYearFinal(avgs) ==
    IF avgs # <<>> THEN Some(MeanOfPeriods(avgs)) ELSE None

YearWeights == {40, 60}
NameOf(id) == IF id = 1 THEN "Homework" ELSE "Exams"

YearCategoryLists ==
    {c \in CategoryLists :
        \A i \in 1..Len(c) : c[i].weight \in YearWeights /\ c[i].name = NameOf(c[i].id)}

YearGradeOptions == {None, Some(6), Some(8)}

YearRecords ==
    [grade : YearGradeOptions, category_id : CategoryIdOptions, period : 1..3]

InitYear ==
    /\ grades \in GradeLists(YearRecords, MaxGrades)
    /\ categories \in YearCategoryLists
    /\ sys \in Systems
    /\ pc = "input"
    /\ result = NoResult
    /\ prev = NoResult
    /\ p_avgs = <<>>
    /\ cell_val = None
    /\ ExtIdle

\* teacher_dashboard, Global Gradebook, "Year Final" (sel_p_mode == 0), one student and subject
TeacherGlobalYearFinal ==
    /\ pc = "input"
    /\ p_avgs' = PeriodLoop(grades, categories, 1, num_p(sys))
    /\ cell_val' \in GlobalCell(p_avgs')
    /\ pc' = "teacher_global"
    /\ UNCHANGED <<grades, categories, sys, result, prev>>
    /\ UNCHANGED extVars

\* student_dashboard, global gradebook tab, "Year Final" (sel_p_mode == 0), one subject
StudentGlobalYearFinal ==
    /\ pc = "input"
    /\ p_avgs' = PeriodLoop(grades, categories, 1, num_p(sys))
    /\ cell_val' \in GlobalCell(p_avgs')
    /\ pc' = "student_global"
    /\ UNCHANGED <<grades, categories, sys, result, prev>>
    /\ UNCHANGED extVars

\* student_dashboard, My Grades tab of one subject, eval_sys other than 'annual'
MyGradesPeriods ==
    /\ pc = "input"
    /\ IF grades # <<>>
       THEN /\ p_avgs' = PeriodLoop(grades, categories, 1, num_p(sys))
            /\ cell_val' = MyGradesYearFinal(p_avgs')
       ELSE /\ p_avgs' = <<>>
            /\ cell_val' = None
    /\ pc' = "my_grades"
    /\ UNCHANGED <<grades, categories, sys, result, prev>>
    /\ UNCHANGED extVars

NextYear == TeacherGlobalYearFinal \/ StudentGlobalYearFinal \/ MyGradesPeriods

SpecYear == InitYear /\ [][NextYear]_vars

----------------------------------------------------------------------------
\* What the year-final properties are measured against

InView == pc \in {"teacher_global", "student_global", "my_grades"}
InGlobalView == pc \in {"teacher_global", "student_global"}

\* the periods of the evaluation system that have at least one grade row
PeriodsWithRows ==
    {p \in 1..num_p(sys) : \E i \in Indices(grades) : grades[i].period = p}

PeriodFinal(p) == calculate_average_v3(p_grades(grades, p), categories).final_score

RECURSIVE SumOfFinals(_)
SumOfFinals(P) ==
    IF P = {} THEN Zero
    ELSE LET p == CHOOSE x \in P : TRUE IN RatAdd(PeriodFinal(p), SumOfFinals(P \ {p}))

\* the unweighted mean of the finals of the periods that have rows
MeanOverPeriodsWithRows ==
    Divide(SumOfFinals(PeriodsWithRows), Cardinality(PeriodsWithRows)).value

\* a period with rows none of which gives any category (or the fallback) a grade
NoDataPeriod(p) ==
    LET rows == p_grades(grades, p)
    IN  /\ rows # <<>>
        /\ IF categories = <<>> THEN GradedIdx(rows) = {}
           ELSE WithData(rows, categories) = {}

\* C9 as claimed: the year-final figure is the unweighted mean of the finals of
\* exactly the periods that have grade rows.
C9_YearFinalIsMean ==
    (InView /\ PeriodsWithRows # {}) => cell_val = Some(MeanOverPeriodsWithRows)

\* C9 as amended: My Grades shows that mean; the teacher's and the student's
\* global gradebooks show it rounded to two decimals.
C9_YearFinalIsMeanOrRounded ==
    (InView /\ PeriodsWithRows # {})
    => /\ cell_val # None
       /\ pc = "my_grades" => cell_val[1] = MeanOverPeriodsWithRows
       /\ InGlobalView
            => /\ 100 % cell_val[1][2] = 0
               /\ RatLeq(RatAbs(RatSub(cell_val[1], MeanOverPeriodsWithRows)), <<1, 200>>)

C9_Witness ==
    /\ pc = "teacher_global"
    /\ sys = "semesters"
    /\ PeriodsWithRows = {1}
    /\ PeriodFinal(1) = <<7, 1>>
    /\ cell_val = Some(<<7, 1>>)

\* C10: a period is left out of the year final exactly when it has no grade
\* row; a period whose rows give no category any data enters with 0.0.
C10_SkippedIffNoRows ==
    InView
    => /\ Len(p_avgs) = Cardinality(PeriodsWithRows)
       /\ \A p \in PeriodsWithRows :
            /\ p_avgs[Cardinality({q \in PeriodsWithRows : q <= p})] = PeriodFinal(p)
            /\ NoDataPeriod(p)
                 => p_avgs[Cardinality({q \in PeriodsWithRows : q <= p})] = Zero

C10_Witness ==
    /\ pc = "student_global"
    /\ sys = "semesters"
    /\ categories # <<>>
    /\ PeriodsWithRows = {1, 2}
    /\ NoDataPeriod(2)
    /\ p_avgs = <<Rat(8), Zero>>
    /\ cell_val = Some(Rat(4))

----------------------------------------------------------------------------
\* Pass / fail marks of the student's gradebook views

\* what the class settings form can store: a float in [0.0, 10.0]
PassingGrades == {Zero, Rat(6), <<667, 100>>}

AllSystems == {"annual"} \cup Systems

\* periods = {...}: the choices of the "Report Period" radio
PeriodChoices(system) ==
    IF system = "semesters" THEN 0..2
    ELSE IF system = "trimesters" THEN 0..3
    ELSE {1}

\* sel_c.get('passing_grade', 6.0) or 6.0: a stored 0.0 is falsy
PassingOrDefault(stored) == IF stored = Zero THEN Rat(6) ELSE stored

\* "PASS" if value >= passing else "FAIL"
Mark(value, passing) == IF RatLeq(passing, value) THEN "PASS" ELSE "FAIL"

\* cell_val = round(p_avg_val, 2) of one period
PeriodCell(raw_grades, cats, p) ==
    {Some(v) : v \in Round2(calculate_average_v3(p_grades(raw_grades, p), cats).final_score)}

GradebookRecords ==
    [grade : YearGradeOptions, category_id : {None, Some(1)}, period : 1..2]

InitGradebook ==
    /\ grades \in GradeLists(GradebookRecords, MaxGrades)
    /\ categories \in YearCategoryLists
    /\ sys \in AllSystems
    /\ pc = "input"
    /\ result = NoResult
    /\ prev = NoResult
    /\ p_avgs = <<>>
    /\ cell_val = None
    /\ passing_grade \in PassingGrades
    /\ sel_p_mode = 0
    /\ status = None
    /\ GradebookRestIdle

\* student_dashboard, global gradebook tab: one row of the summary table
StudentGlobalRow ==
    /\ pc = "input"
    /\ \E mode \in PeriodChoices(sys) :
          /\ sel_p_mode' = mode
          /\ IF mode = 0
             THEN /\ p_avgs' = PeriodLoop(grades, categories, 1, num_p(sys))
                  /\ cell_val' \in GlobalCell(p_avgs')
             ELSE /\ p_avgs' = <<>>
                  /\ cell_val' \in PeriodCell(grades, categories, mode)
    /\ status' = Some(Mark(cell_val'[1], PassingOrDefault(passing_grade)))
    /\ pc' = "student_global"
    /\ UNCHANGED <<grades, categories, sys, result, prev, passing_grade>>
    /\ UNCHANGED gradebookRest

\* student_dashboard, My Grades tab of one subject
MyGradesTab ==
    /\ pc = "input"
    /\ sel_p_mode' = 0
    /\ IF grades # <<>> /\ sys # "annual"
       THEN /\ p_avgs' = PeriodLoop(grades, categories, 1, num_p(sys))
            /\ cell_val' = MyGradesYearFinal(p_avgs')
            /\ status' = IF p_avgs' # <<>>
                         THEN Some(Mark(cell_val'[1], passing_grade))
                         ELSE None
       ELSE /\ p_avgs' = <<>>
            /\ cell_val' = None
            /\ status' = None
    /\ pc' = "my_grades"
    /\ UNCHANGED <<grades, categories, sys, result, prev, passing_grade>>
    /\ UNCHANGED gradebookRest

NextGradebook == StudentGlobalRow \/ MyGradesTab

SpecGradebook == InitGradebook /\ [][NextGradebook]_vars

\* the final score of the selected scope, before any rounding for display
ScopeFinal ==
    IF sel_p_mode = 0
    THEN IF PeriodsWithRows # {} THEN MeanOverPeriodsWithRows ELSE Zero
    ELSE PeriodFinal(sel_p_mode)

\* C14: a subject is marked as passed exactly when the final score of the
\* selected scope is at least the passing_grade of the class, failed otherwise.
C14_PassedIffFinalAtLeastPassing ==
    (InView /\ status # None)
    => (status = Some("PASS") <=> RatLeq(passing_grade, ScopeFinal))

\* What the views do mark: My Grades compares the year final with the stored
\* passing_grade; the global gradebook compares the figure rounded to two
\* decimals with the passing_grade, or with 6.0 when 0.0 is stored.
C14_MarkedOnShownFigure ==
    (InView /\ status # None)
    => /\ cell_val # None
       /\ pc = "my_grades"
            => (status = Some("PASS") <=> RatLeq(passing_grade, ScopeFinal))
       /\ pc = "student_global"
            => (status = Some("PASS")
                  <=> RatLeq(IF passing_grade = Zero THEN Rat(6) ELSE passing_grade,
                             cell_val[1]))

----------------------------------------------------------------------------
\* Concurrent calls of calculate_average_v3, statement by statement.  Every
\* name the function assigns (valid_grades, cat_averages, total_weight_used,
\* calculated_score, c_grades, avg, final_score) is a local of the call; the
\* function assigns no attribute, item or global.

Calls == {1, 2}

\* a call that has not started
NewFrame ==
    [at |-> "start", i |-> 1, cat_averages |-> EmptyDict, total_weight_used |-> 0,
     calculated_score |-> Zero, raised |-> FALSE, ret |-> NoResult]

\* StoreLocals with the three accumulators kept in module-level globals, which
\* every call reads and writes; the position and the return value stay per call
StoreLocals_GlobalAccumulators(fr, k, v) ==
    [j \in DOMAIN fr |->
        IF j = k THEN v
        ELSE [fr[j] EXCEPT !.cat_averages = v.cat_averages,
                           !.total_weight_used = v.total_weight_used,
                           !.calculated_score = v.calculated_score]]

\* the locals of call k are kept in the frame of call k, with its place in the
\* function, its loop position and its return value
StoreLocals(fr, k, v) == [fr EXCEPT ![k] = v]

\* final_score = (calculated_score / total_weight_used) if total_weight_used > 0 else 0.0
\* return final_score, cat_averages
Finish(f) ==
    LET q == Divide(f.calculated_score, f.total_weight_used)
    IN  IF WeightUsed(f.total_weight_used)
        THEN [raised |-> f.raised \/ q.raised, final_score |-> q.value,
              cat_averages |-> f.cat_averages]
        ELSE [raised |-> f.raised, final_score |-> Zero, cat_averages |-> f.cat_averages]

InitCalls ==
    /\ grades \in GradeLists(GradeRecords({1}), MaxGrades)
    /\ categories \in YearCategoryLists
    /\ sys = "annual"
    /\ pc = "input"
    /\ result = NoResult
    /\ prev = NoResult
    /\ p_avgs = <<>>
    /\ cell_val = None
    /\ ViewIdle
    /\ BackIdle
    /\ frames = [k \in Calls |-> NewFrame]

\* "if not categories: ... return" or the three initialisations before the loop
Enter(k) ==
    /\ frames[k].at = "start"
    /\ frames' = StoreLocals(frames, k,
          IF categories = <<>>
          THEN [frames[k] EXCEPT !.at = "done",
                                 !.ret = calculate_average_v3(grades, <<>>)]
          ELSE [frames[k] EXCEPT !.at = "loop", !.i = 1, !.cat_averages = EmptyDict,
                                 !.total_weight_used = 0, !.calculated_score = Zero])
    /\ UNCHANGED callsRest

\* one turn of "for cat in categories"
Iterate(k) ==
    /\ frames[k].at = "loop"
    /\ frames[k].i <= Len(categories)
    /\ LET acc == LoopBody([cat_averages |-> frames[k].cat_averages,
                            total_weight_used |-> frames[k].total_weight_used,
                            calculated_score |-> frames[k].calculated_score,
                            raised |-> frames[k].raised],
                           grades, categories[frames[k].i])
       IN  frames' = StoreLocals(frames, k,
              [frames[k] EXCEPT !.i = frames[k].i + 1,
                                !.cat_averages = acc.cat_averages,
                                !.total_weight_used = acc.total_weight_used,
                                !.calculated_score = acc.calculated_score,
                                !.raised = acc.raised])
    /\ UNCHANGED callsRest

\* the two statements after the loop
Return(k) ==
    /\ frames[k].at = "loop"
    /\ frames[k].i > Len(categories)
    /\ frames' = StoreLocals(frames, k,
          [frames[k] EXCEPT !.at = "done", !.ret = Finish(frames[k])])
    /\ UNCHANGED callsRest

NextCalls == \E k \in Calls : Enter(k) \/ Iterate(k) \/ Return(k)

SpecCalls == InitCalls /\ [][NextCalls]_vars

\* C11: the calculator is pure: under every interleaving of the statements of
\* concurrent calls each call returns what a call running alone returns for the
\* same arguments, two calls with equal arguments return equal values, and no
\* step changes the arguments.
C11_Pure ==
    /\ [](\A k \in Calls :
            frames[k].at = "done"
              => frames[k].ret = calculate_average_v3(grades, categories))
    /\ [](\A j, k \in Calls :
            (frames[j].at = "done" /\ frames[k].at = "done")
              => frames[j].ret = frames[k].ret)
    /\ [][grades' = grades /\ categories' = categories]_vars

C11_Witness ==
    /\ Len(categories) = 2
    /\ frames[1].at = "done"
    /\ frames[1].ret.final_score = <<36, 5>>
    /\ frames[2].at = "loop"
    /\ frames[2].i = 2
    /\ frames[2].total_weight_used = categories[1].weight

----------------------------------------------------------------------------
\* The tables behind the gradebook and the DatabaseManager operations that
\* write them.  A table is the set of its rows; a row carries the columns the
\* operations below read or write (titles, dates and files are left out).
\* Every operation runs in one transaction of get_connection: it takes effect
\* whole, or raises and leaves the tables as they were.  A serial is taken by
\* every INSERT that is attempted, whether or not a row results.

MaxSerial == 2

Ids == 1..MaxSerial
Students == {1, 2}
SubmissionIds == {1}
GroupNames == {"Homework"}
FormWeights == {40, 60}
GradeInputs == {6, 8}
Feedbacks == {"ok", "redo"}
CategoryRefs == {None} \cup {Some(i) : i \in Ids}
EditedSubjects == {1}
EditedWeights == {40}
Submitters == {1}

Operation(op, args, out) == [op |-> op, args |-> args, out |-> out]

NextVal(table) == db.seq[table] + 1

CanInsert(table) == db.seq[table] < MaxSerial

\* the ids of the rows "WHERE category_id = k" matches (the cursor's count of
\* them is not read by the method; last_op keeps them for the record)
Referencing(rows, k) == {a.id : a \in {x \in rows : x.category_id = Some(k)}}

\* UPDATE assignments SET category_id = NULL WHERE category_id = k, with the
\* assignments deleted instead
ClearCategory_Cascade(rows, k) == {a \in rows : a.category_id # Some(k)}

\* UPDATE assignments SET category_id = NULL WHERE category_id = k
ClearCategory(rows, k) ==
    {IF a.category_id = Some(k) THEN [a EXCEPT !.category_id = None] ELSE a : a \in rows}

Conflicts(r, new) == r.assignment_id = new.assignment_id /\ r.student_id = new.student_id

\* INSERT INTO grades with neither the UNIQUE constraint nor ON CONFLICT
Upsert_InsertOnly(rows, new) == rows \cup {new}

\* INSERT INTO grades ... ON CONFLICT(assignment_id, student_id)
\* DO UPDATE SET grade = excluded.grade, feedback = excluded.feedback
Upsert(rows, new) ==
    IF \E r \in rows : Conflicts(r, new)
    THEN {IF Conflicts(r, new)
          THEN [r EXCEPT !.grade = new.grade, !.feedback = new.feedback]
          ELSE r : r \in rows}
    ELSE rows \cup {new}

\* FOREIGN KEY (assignment_id) REFERENCES assignments(id)
AssignmentExists(assignment_id) == \E a \in db.assignments : a.id = assignment_id

RECURSIVE SumWeights(_)
SumWeights(rows) ==
    IF rows = {} THEN 0
    ELSE LET c == CHOOSE x \in rows : TRUE IN c.weight + SumWeights(rows \ {c})

\* the notice under "Active Groups", with the weight warning shown for an
\* empty list as well
WeightNotice_WarnWhenEmpty(cats) ==
    IF SumWeights(cats) # 100 THEN "error" ELSE "success"

\* the notice under "Active Groups"
WeightNotice(cats) ==
    IF cats = {} THEN "info"
    ELSE IF SumWeights(cats) # 100 THEN "error" ELSE "success"

\* <reader>.clear() for each reader named: every entry of it is dropped
Clear(readers) ==
    [fn \in CachedReaders |-> IF fn \in readers THEN NoCache[fn] ELSE cache[fn]]

\* the rows a cached reader selects for a subject-offering
Query(fn, cs) ==
    LET assigns == {a \in db.assignments : a.course_subject_id = cs}
    IN  CASE fn = "get_grading_categories" ->
                {c \in db.grading_categories : c.course_subject_id = cs}
          [] fn = "get_course_subject_assignments" -> assigns
          [] fn = "get_class_gradebook" ->
                [assigns |-> {a.id : a \in assigns},
                 grades |-> {[student_id |-> g.student_id, assignment_id |-> g.assignment_id,
                              grade |-> g.grade] :
                             g \in {x \in db.grades : x.assignment_id \in {a.id : a \in assigns}}}]

\* what a cached reader returns: the entry st.cache_data holds, else the query
Cached(fn, cs) == IF cache[fn][cs] # None THEN cache[fn][cs][1] ELSE Query(fn, cs)

EmptyTables ==
    [grading_categories |-> {}, assignments |-> {}, submissions |-> {}, grades |-> {},
     seq |-> [grading_categories |-> 0, assignments |-> 0, submissions |-> 0, grades |-> 0]]

\* one assignment in no category, handed in and graded
GradedTables ==
    [grading_categories |-> {},
     assignments |-> {[id |-> 1, course_subject_id |-> 1, category_id |-> None]},
     submissions |-> {[id |-> 1, assignment_id |-> 1, student_id |-> 1]},
     grades |-> {[id |-> 1, student_id |-> 1, assignment_id |-> 1, grade |-> 6,
                  feedback |-> "ok", submission_id |-> Some(1)]},
     seq |-> [grading_categories |-> 0, assignments |-> 1, submissions |-> 1, grades |-> 1]]

\* assignments to grade, none graded yet
UngradedTables(n) ==
    [EmptyTables EXCEPT
        !.assignments = {[id |-> i, course_subject_id |-> 1, category_id |-> None] : i \in 1..n},
        !.seq.assignments = n]

InitDb ==
    /\ DbRestIdle
    /\ db \in {EmptyTables, GradedTables}
    /\ last_op = NoOperation
    /\ cache = NoCache

InitGrading ==
    /\ DbRestIdle
    /\ db \in {UngradedTables(n) : n \in 1..MaxSerial}
    /\ last_op = NoOperation
    /\ cache = NoCache

add_grading_category(course_subject_id, name, weight) ==
    /\ CanInsert("grading_categories")
    /\ db' = [db EXCEPT
          !.grading_categories = @ \cup {[id |-> NextVal("grading_categories"),
                                          course_subject_id |-> course_subject_id,
                                          name |-> name, weight |-> weight]},
          !.seq.grading_categories = @ + 1]
    /\ last_op' = Operation("add_grading_category",
          [course_subject_id |-> course_subject_id, name |-> name, weight |-> weight], "ok")
    /\ cache' = Clear({"get_grading_categories"})
    /\ UNCHANGED dbRest

update_grading_group(group_id, name, weight) ==
    /\ db' = [db EXCEPT
          !.grading_categories = {IF c.id = group_id
                                  THEN [c EXCEPT !.name = name, !.weight = weight]
                                  ELSE c : c \in @}]
    /\ last_op' = Operation("update_grading_group",
          [group_id |-> group_id, name |-> name, weight |-> weight], "ok")
    /\ cache' = Clear({"get_grading_categories"})
    /\ UNCHANGED dbRest

delete_grading_category(category_id) ==
    /\ db' = [db EXCEPT
          !.grading_categories = {c \in @ : c.id # category_id},
          !.assignments = ClearCategory(@, category_id)]
    /\ last_op' = [op |-> "delete_grading_category", args |-> [category_id |-> category_id],
                    out |-> "ok", cleared |-> Referencing(db.assignments, category_id)]
    /\ cache' = Clear({"get_grading_categories"})
    /\ UNCHANGED dbRest

create_assignment(course_subject_id, category_id) ==
    /\ CanInsert("assignments")
    /\ db' = [db EXCEPT
          !.assignments = @ \cup {[id |-> NextVal("assignments"),
                                   course_subject_id |-> course_subject_id,
                                   category_id |-> category_id]},
          !.seq.assignments = @ + 1]
    /\ last_op' = Operation("create_assignment",
          [course_subject_id |-> course_subject_id, category_id |-> category_id], "ok")
    /\ cache' = Clear({"get_assignments_by_class", "get_course_subject_assignments"})
    /\ UNCHANGED dbRest

update_assignment_category(assignment_id, category_id) ==
    /\ db' = [db EXCEPT
          !.assignments = {IF a.id = assignment_id
                           THEN [a EXCEPT !.category_id = category_id]
                           ELSE a : a \in @}]
    /\ last_op' = Operation("update_assignment_category",
          [assignment_id |-> assignment_id, category_id |-> category_id], "ok")
    /\ cache' = Clear({})
    /\ UNCHANGED dbRest

submit_assignment(assignment_id, student_id) ==
    /\ CanInsert("submissions")
    /\ db' = [db EXCEPT
          !.submissions = IF AssignmentExists(assignment_id)
                          THEN @ \cup {[id |-> NextVal("submissions"),
                                        assignment_id |-> assignment_id,
                                        student_id |-> student_id]}
                          ELSE @,
          !.seq.submissions = @ + 1]
    /\ last_op' = Operation("submit_assignment",
          [assignment_id |-> assignment_id, student_id |-> student_id],
          IF AssignmentExists(assignment_id) THEN "ok" ELSE "raised")
    /\ cache' = IF AssignmentExists(assignment_id) THEN Clear({"get_submissions_for_subject"}) ELSE cache
    /\ UNCHANGED dbRest

\* the statement grade_submission and grade_assignment_direct both execute
InsertGrade(op, submission_id, assignment_id, student_id, grade, feedback) ==
    LET new == [id |-> NextVal("grades"), student_id |-> student_id,
                assignment_id |-> assignment_id, grade |-> grade,
                feedback |-> feedback, submission_id |-> submission_id]
    IN  /\ CanInsert("grades")
        /\ db' = [db EXCEPT
              !.grades = IF AssignmentExists(assignment_id) THEN Upsert(@, new) ELSE @,
              !.seq.grades = @ + 1]
        /\ last_op' = Operation(op,
              [submission_id |-> submission_id, assignment_id |-> assignment_id,
               student_id |-> student_id, grade |-> grade, feedback |-> feedback],
              IF AssignmentExists(assignment_id) THEN "ok" ELSE "raised")
        /\ cache' = IF AssignmentExists(assignment_id) THEN Clear({"get_grades_for_student_v2", "get_submissions_for_subject"}) ELSE cache
        /\ UNCHANGED dbRest

grade_submission(submission_id, assignment_id, student_id, grade, feedback) ==
    InsertGrade("grade_submission", Some(submission_id), assignment_id, student_id,
                grade, feedback)

grade_assignment_direct(assignment_id, student_id, grade, feedback) ==
    InsertGrade("grade_assignment_direct", None, assignment_id, student_id, grade, feedback)

\* a cached reader is called: the entry is returned, or the query is run and
\* its result kept
Read(fn, cs) ==
    /\ last_op' = Operation(fn, [course_subject_id |-> cs], Cached(fn, cs))
    /\ cache' = [cache EXCEPT ![fn][cs] = Some(Cached(fn, cs))]
    /\ UNCHANGED db
    /\ UNCHANGED dbRest

\* ttl seconds after an entry was stored st.cache_data drops it
Expire(fn, cs) ==
    /\ cache[fn][cs] # None
    /\ cache' = [cache EXCEPT ![fn][cs] = None]
    /\ UNCHANGED <<db, last_op>>
    /\ UNCHANGED dbRest

\* the "Grading Groups" tab of a subject-offering, drawn with no button pressed
GradingGroupsView(course_subject_id) ==
    LET cats == Cached("get_grading_categories", course_subject_id)
    IN  /\ last_op' = Operation("grading_groups_view",
              [course_subject_id |-> course_subject_id], WeightNotice(cats))
        /\ cache' = [cache EXCEPT !["get_grading_categories"][course_subject_id] = Some(cats)]
        /\ UNCHANGED db
        /\ UNCHANGED dbRest

\* the Grading Groups tab: the categories of the subject-offerings are edited
\* and the tab is drawn
InitGroups ==
    /\ DbRestIdle
    /\ db = EmptyTables
    /\ last_op = NoOperation
    /\ cache = NoCache

NextGroups ==
    \/ \E cs \in CourseSubjects, name \in Names, weight \in FormWeights :
          add_grading_category(cs, name, weight)
    \/ \E k \in Ids, name \in Names, weight \in FormWeights :
          update_grading_group(k, name, weight)
    \/ \E k \in Ids : delete_grading_category(k)
    \/ \E cs \in CourseSubjects : GradingGroupsView(cs)
    \/ \E cs \in CourseSubjects : Expire("get_grading_categories", cs)

SpecGroups == InitGroups /\ [][NextGroups]_vars

\* one subject-offering: its categories are created and deleted while
\* assignments are created in them, moved between them and handed in
NextDb ==
    \/ \E cs \in EditedSubjects, name \in GroupNames, weight \in EditedWeights :
          add_grading_category(cs, name, weight)
    \/ \E k \in Ids : delete_grading_category(k)
    \/ \E cs \in EditedSubjects, c \in CategoryRefs : create_assignment(cs, c)
    \/ \E a \in Ids, c \in CategoryRefs : update_assignment_category(a, c)
    \/ \E a \in Ids, s \in Submitters : submit_assignment(a, s)

SpecDb == InitDb /\ [][NextDb]_vars

NextGrading ==
    \/ \E sub \in SubmissionIds, a \in Ids, s \in Students, g \in GradeInputs, f \in Feedbacks :
          grade_submission(sub, a, s, g, f)
    \/ \E a \in Ids, s \in Students, g \in GradeInputs, f \in Feedbacks :
          grade_assignment_direct(a, s, g, f)

SpecGrading == InitGrading /\ [][NextGrading]_vars

GradesOfPair(a, s) == {r \in db.grades : r.assignment_id = a /\ r.student_id = s}

\* C15: after any sequence of grade_submission and grade_assignment_direct
\* calls the grades table holds at most one row per (student_id,
\* assignment_id); grading a pair that already has a row leaves the number of
\* rows as it was and replaces that row by itself with the new grade and
\* feedback (same id, same submission_id), every other row staying as it is.
C15_OneGradePerPair ==
    /\ [](\A a \in Ids, s \in Students : Cardinality(GradesOfPair(a, s)) <= 1)
    /\ [][last_op'.op \in {"grade_submission", "grade_assignment_direct"} =>
            \A old \in db.grades :
                IF /\ old.assignment_id = last_op'.args.assignment_id
                   /\ old.student_id = last_op'.args.student_id
                THEN /\ Cardinality(db'.grades) = Cardinality(db.grades)
                     /\ GradesOfPair(old.assignment_id, old.student_id)' =
                            {[old EXCEPT !.grade = last_op'.args.grade,
                                         !.feedback = last_op'.args.feedback]}
                ELSE old \in db'.grades]_vars

\* a pair graded through grade_submission is graded again directly: two
\* serials taken, one row, still the first one, now with the second grade
C15_Witness ==
    /\ last_op.op = "grade_assignment_direct"
    /\ last_op.out = "ok"
    /\ db.seq.grades = 2
    /\ db.grades = {[id |-> 1, student_id |-> 2, assignment_id |-> 1, grade |-> 8,
                     feedback |-> "redo", submission_id |-> Some(1)]}

RowIds(rows) == {r.id : r \in rows}

\* C16: delete_grading_category(k) removes category k and no other category,
\* sets category_id to NULL on every assignment that referenced k and leaves
\* every other assignment as it was, and deletes no assignment, submission or
\* grade.
C16_DeleteCategoryFrame ==
    [][last_op'.op = "delete_grading_category" =>
        LET k == last_op'.args.category_id
        IN  /\ db'.grading_categories = {c \in db.grading_categories : c.id # k}
            /\ RowIds(db'.assignments) = RowIds(db.assignments)
            /\ Cardinality(db'.assignments) = Cardinality(db.assignments)
            /\ \A a \in db.assignments :
                  IF a.category_id = Some(k)
                  THEN [a EXCEPT !.category_id = None] \in db'.assignments
                  ELSE a \in db'.assignments
            /\ db'.submissions = db.submissions
            /\ db'.grades = db.grades
            /\ db'.seq = db.seq]_vars

\* category 1 has just been deleted while the graded assignment 1 referenced
\* it and assignment 2 referenced category 2
C16_Witness ==
    /\ last_op.op = "delete_grading_category"
    /\ last_op.args.category_id = 1
    /\ last_op.cleared = {1}
    /\ RowIds(db.grading_categories) = {2}
    /\ db.assignments = {[id |-> 1, course_subject_id |-> 1, category_id |-> None],
                         [id |-> 2, course_subject_id |-> 1, category_id |-> Some(2)]}
    /\ RowIds(db.submissions) = {1}
    /\ RowIds(db.grades) = {1}

CategoriesOf(cs) == {c \in db.grading_categories : c.course_subject_id = cs}

Viewed == last_op.op = "grading_groups_view"

\* add_grading_category and update_grading_group store what they are given,
\* whatever the weights of the subject-offering then sum to
StoredAsGiven ==
    /\ last_op.op = "add_grading_category" =>
          /\ last_op.out = "ok"
          /\ [id |-> db.seq.grading_categories,
              course_subject_id |-> last_op.args.course_subject_id,
              name |-> last_op.args.name,
              weight |-> last_op.args.weight] \in db.grading_categories
    /\ last_op.op = "update_grading_group" =>
          /\ last_op.out = "ok"
          /\ \A c \in db.grading_categories :
                c.id = last_op.args.group_id =>
                    c.name = last_op.args.name /\ c.weight = last_op.args.weight

\* C17 as stated: no change is rejected for the weight sum it leaves, and the
\* Grading Groups view shows the weight warning exactly when the weights of
\* the subject-offering do not sum to 100, the success notice when they do.
C17_WarningIffNot100 ==
    /\ StoredAsGiven
    /\ Viewed =>
          LET total_w == SumWeights(CategoriesOf(last_op.args.course_subject_id))
          IN  /\ last_op.out = "error" <=> total_w # 100
              /\ last_op.out = "success" <=> total_w = 100

\* C17, amended: no change is rejected for the weight sum it leaves; the view
\* shows the weight warning exactly when the subject-offering has at least
\* one category and its weights do not sum to 100, the success notice exactly
\* when they sum to 100, and only "No groups created yet." when it has none.
C17_WarningIffGroupsNot100 ==
    /\ StoredAsGiven
    /\ Viewed =>
          LET cats == CategoriesOf(last_op.args.course_subject_id)
              total_w == SumWeights(cats)
          IN  /\ last_op.out = "error" <=> (cats # {} /\ total_w # 100)
              /\ last_op.out = "success" <=> total_w = 100
              /\ last_op.out = "info" <=> cats = {}

\* the view of subject-offering 1, whose one category weighs 60 while the
\* categories of the class weigh 100 together: the warning is shown
C17_Witness ==
    /\ Viewed
    /\ last_op.args.course_subject_id = 1
    /\ last_op.out = "error"
    /\ SumWeights(CategoriesOf(1)) = 60
    /\ SumWeights(CategoriesOf(2)) = 40

\* a change that leaves the weights of subject-offering 1 at 120 is stored
C17_WitnessStored ==
    /\ last_op.op = "update_grading_group"
    /\ last_op.out = "ok"
    /\ SumWeights(CategoriesOf(1)) = 120

\* the view of a subject-offering with no category: neither notice about the
\* weights, although they sum to 0
C17_WitnessNoGroups ==
    /\ Viewed
    /\ CategoriesOf(last_op.args.course_subject_id) = {}
    /\ last_op.out = "info"

----------------------------------------------------------------------------
\* get_connection: a connection is checked out of the pool, the caller's block
\* runs with it, and the except / else / finally clauses end the checkout.
\* The pool is psycopg2's ThreadedConnectionPool: getconn hands out an idle
\* connection, opens one while fewer than the maximum are out, and raises
\* PoolError otherwise; putconn takes the connection back, rolling back a
\* transaction left open, and keeps it idle or, with minconn idle already,
\* closes it.  Its methods run under the pool's lock.

Outcomes == {"normal", "Exception", "BaseException"}

Idle(cs) == {c \in ConnIds : cs[c].state = "idle"}

Used(cs) == {c \in ConnIds : cs[c].state = "used"}

Closed(cs) == {c \in ConnIds : cs[c].state = "closed"}

Least(S) == CHOOSE x \in S : \A y \in S : x <= y

\* self.pool.getconn(): the connection handed out, None for PoolError
getconn(cs) ==
    IF Idle(cs) # {} THEN Some(Least(Idle(cs)))
    ELSE IF Cardinality(Used(cs)) < MaxConn THEN Some(Least(Closed(cs)))
    ELSE None

\* self.pool.putconn(conn)
putconn(cs, c) ==
    [cs EXCEPT ![c] = [state |-> IF Cardinality(Idle(cs)) < minconn THEN "idle" ELSE "closed",
                       tx |-> "idle", holder |-> None]]

\* what ends the transaction of the block
Ended(open, outcome) ==
    CASE outcome = "normal" -> "commit"
      [] outcome = "Exception" -> "rollback"
      [] OTHER -> IF open THEN "rollback_by_pool" ELSE "none"

\* the clauses of get_connection with putconn moved from "finally" to "else"
Exit_PutconnInElse(cs, c, outcome) ==
    IF outcome = "normal"
    THEN [conns |-> putconn(cs, c), ended |-> "commit", raised |-> FALSE, puts |-> 1]
    ELSE [conns |-> [cs EXCEPT ![c].tx = IF outcome = "Exception" THEN "idle" ELSE @],
          ended |-> IF outcome = "Exception" THEN "rollback" ELSE "none",
          raised |-> TRUE, puts |-> 0]

\* "except Exception: rollback, raise / else: commit / finally: putconn"
Exit(cs, c, outcome) ==
    [conns |-> putconn(cs, c),
     ended |-> Ended(cs[c].tx = "active", outcome),
     raised |-> outcome # "normal",
     puts |-> 1]

InitPool ==
    /\ PoolRestIdle
    /\ PoolIdle

\* conn = self.pool.getconn(), up to the yield
GetConn(t) ==
    LET got == getconn(conns)
    IN  /\ sessions[t].at = "outside"
        /\ conns' = IF got = None THEN conns
                    ELSE [conns EXCEPT ![got[1]] =
                             [state |-> "used", tx |-> "idle", holder |-> Some(t)]]
        /\ sessions' = [sessions EXCEPT ![t] =
              IF got = None
              THEN [NewSession EXCEPT !.at = "after", !.outcome = "PoolError", !.raised = TRUE]
              ELSE [NewSession EXCEPT !.at = "block", !.conn = got]]
        /\ UNCHANGED poolRest

\* the block executes a statement: psycopg2 opens a transaction
Execute(t) ==
    /\ sessions[t].at = "block"
    /\ conns[sessions[t].conn[1]].tx = "idle"
    /\ conns' = [conns EXCEPT ![sessions[t].conn[1]].tx = "active"]
    /\ UNCHANGED sessions
    /\ UNCHANGED poolRest

\* the block calls conn.commit() itself, as the DatabaseManager methods do
CommitInBlock(t) ==
    /\ sessions[t].at = "block"
    /\ conns[sessions[t].conn[1]].tx = "active"
    /\ conns' = [conns EXCEPT ![sessions[t].conn[1]].tx = "idle"]
    /\ UNCHANGED sessions
    /\ UNCHANGED poolRest

\* the block ends, normally or by raising
EndBlock(t, outcome) ==
    /\ sessions[t].at = "block"
    /\ LET c == sessions[t].conn[1]
           x == Exit(conns, c, outcome)
       IN  /\ conns' = x.conns
           /\ sessions' = [sessions EXCEPT ![t] =
                 [@ EXCEPT !.at = "after", !.open = (conns[c].tx = "active"),
                           !.outcome = outcome, !.ended = x.ended,
                           !.raised = x.raised, !.puts = @ + x.puts]]
    /\ UNCHANGED poolRest

\* the caller goes on; its next request starts afresh
Leave(t) ==
    /\ sessions[t].at = "after"
    /\ sessions' = [sessions EXCEPT ![t] = NewSession]
    /\ UNCHANGED conns
    /\ UNCHANGED poolRest

NextPool ==
    \E t \in Threads :
        \/ GetConn(t)
        \/ Execute(t)
        \/ CommitInBlock(t)
        \/ \E outcome \in Outcomes : EndBlock(t, outcome)
        \/ Leave(t)

SpecPool == InitPool /\ [][NextPool]_vars

CheckedOutBy(t) == {c \in ConnIds : conns[c].holder = Some(t)}

\* C18: every connection checked out by get_connection has been returned to
\* the pool exactly once when the block is over, whatever its outcome: the
\* transaction is committed when the block ended normally; rolled back and the
\* exception raised to the caller when the block raised (by get_connection's
\* rollback for an Exception, by the pool taking the connection back for any
\* other BaseException); and a connection is out of the pool only while the
\* block of the thread that checked it out is running.
C18_ReturnedExactlyOnce ==
    /\ \A t \in Threads :
          (sessions[t].at = "after" /\ sessions[t].conn # None) =>
              /\ sessions[t].puts = 1
              /\ CheckedOutBy(t) = {}
              /\ sessions[t].outcome = "normal" =>
                    sessions[t].ended = "commit" /\ ~sessions[t].raised
              /\ sessions[t].outcome = "Exception" =>
                    sessions[t].ended = "rollback" /\ sessions[t].raised
              /\ sessions[t].outcome = "BaseException" =>
                    /\ sessions[t].raised
                    /\ sessions[t].ended = IF sessions[t].open THEN "rollback_by_pool" ELSE "none"
    /\ \A c \in ConnIds :
          IF conns[c].state = "used"
          THEN \E t \in Threads : /\ sessions[t].at = "block"
                                  /\ sessions[t].conn = Some(c)
                                  /\ conns[c].holder = Some(t)
          ELSE conns[c].tx = "idle" /\ conns[c].holder = None
    /\ \A t \in Threads : Cardinality(CheckedOutBy(t)) <= 1

\* thread 1's block raised with a transaction open and its connection is back:
\* thread 2 has since checked the same connection out
C18_Witness ==
    /\ sessions[1].at = "after"
    /\ sessions[1].outcome = "Exception"
    /\ sessions[1].open
    /\ sessions[1].conn = Some(1)
    /\ sessions[2].at = "block"
    /\ sessions[2].conn = Some(1)

\* every connection is out: getconn raised PoolError and thread 3 holds none
C18_WitnessExhausted ==
    /\ sessions[3].outcome = "PoolError"
    /\ Used(conns) = ConnIds

----------------------------------------------------------------------------
\* Cached readers against the operations that write what they select: one
\* subject-offering, its categories, assignments and grades.  Time is the
\* expiry of an entry, which may come at any moment after it was stored.

InitCache ==
    /\ DbRestIdle
    /\ db = GradedTables
    /\ last_op = NoOperation
    /\ cache = NoCache

NextCache ==
    \/ \E name \in GroupNames, weight \in FormWeights : add_grading_category(1, name, weight)
    \/ \E k \in Ids : delete_grading_category(k)
    \/ \E c \in CategoryRefs : create_assignment(1, c)
    \/ \E a \in Ids, c \in CategoryRefs : update_assignment_category(a, c)
    \/ \E a \in Ids, g \in GradeInputs : grade_assignment_direct(a, 1, g, "ok")
    \/ \E fn \in CachedReaders : Read(fn, 1)
    \/ \E fn \in CachedReaders : Expire(fn, 1)

SpecCache == InitCache /\ [][NextCache]_vars

WasRead(fn) == last_op.op = fn

\* C19: every mutating operation clears each cache whose query result it can
\* change, so a cached read issued after the mutation has returned yields what
\* the query yields on the tables as they are now, never an earlier result.
C19_CachedReadsFresh ==
    \A fn \in CachedReaders :
        WasRead(fn) => last_op.out = Query(fn, last_op.args.course_subject_id)

\* the part of C19 that holds of the operations above: add_grading_category
\* and delete_grading_category clear get_grading_categories, and a read of it
\* yields the categories as they are now
C19_GradingCategoriesFresh ==
    WasRead("get_grading_categories") =>
        last_op.out = Query("get_grading_categories", last_op.args.course_subject_id)

\* get_class_gradebook has just answered with grade 6 for assignment 1 after
\* grade_assignment_direct changed it to 8
C19_WitnessStaleGradebook ==
    /\ WasRead("get_class_gradebook")
    /\ last_op.out.grades = {[student_id |-> 1, assignment_id |-> 1, grade |-> 6]}
    /\ \E g \in db.grades : g.student_id = 1 /\ g.assignment_id = 1 /\ g.grade = 8

\* get_grading_categories has just answered from its cache, filled since the
\* last change of the categories
C19_WitnessFreshCategories ==
    /\ WasRead("get_grading_categories")
    /\ last_op.out # {}
    /\ db.seq.grading_categories = 2
    /\ Cardinality(db.grading_categories) = 1

----------------------------------------------------------------------------
\* The four gradebook views of one student in one subject of one class, drawn
\* from the same stored rows.  grades holds the rows of
\* "grades g JOIN assignments a" of the student in the subject, categories the
\* subject's grading groups, sys and passing_grade the class settings.  Every
\* divisor the calculator meets here is a positive weight or a row count, so no
\* view raises.

Views == {"class_gradebook", "teacher_global", "student_global", "my_grades"}

NothingShown == [v \in Views |-> None]

\* the passing grades the settings form of the teacher can store among
\* number_input(0.0, 10.0, step=0.5)
FormPassingGrades == {Zero, Rat(6), Rat(7)}

ViewGradeInputs == {6, 8}

\* the systems the class is switched between and the groups of the subject
ViewSystems == {"annual", "semesters"}
ViewCategoryLists ==
    {c \in YearCategoryLists : c # <<>> /\ c[1].id = 1 /\ c[1].weight = 40}

\* "period = st.selectbox(...)" of the create and the edit form of an assignment
FormPeriods(system) ==
    IF system = "semesters" THEN 1..2 ELSE IF system = "trimesters" THEN 1..3 ELSE {1}

\* the groups the create form offers: the ids of cats
FormCategories(cats) == {Some(cats[i].id) : i \in 1..Len(cats)}

\* the rows kept in the order of Rank, the queries having no ORDER BY
RECURSIVE Place(_, _)
Place(rows, r) ==
    IF rows = <<>> THEN <<r>>
    ELSE IF Rank(r) <= Rank(Head(rows)) THEN <<r>> \o rows
    ELSE <<Head(rows)>> \o Place(Tail(rows), r)

Without(rows, i) == SubSeq(rows, 1, i - 1) \o SubSeq(rows, i + 1, Len(rows))

\* one drawn view: the value it computed, the figure it printed with two
\* decimals, the threshold it compared with (None when it marks nothing)
Drawn(final, figure, threshold) ==
    Some([final |-> final, figure |-> figure, threshold |-> threshold])

viewsRest ==
    <<pc, result, prev, p_avgs, cell_val, sel_p_mode, status, callVars, dbVars,
      poolVars, users, session_state, school, txn>>

ViewsRestIdle ==
    /\ pc = "input" /\ result = NoResult /\ prev = NoResult
    /\ p_avgs = <<>> /\ cell_val = None
    /\ sel_p_mode = 0 /\ status = None
    /\ CallsIdle /\ DbIdle /\ PoolIdle
    /\ users = {} /\ session_state = <<>> /\ school = <<>> /\ txn = <<>>

\* a class as created: passing_grade REAL DEFAULT 6.0, evaluation_system
\* DEFAULT 'annual', the subject with its groups and no graded work yet
InitViews ==
    /\ grades = <<>>
    /\ categories \in ViewCategoryLists
    /\ sys = "annual"
    /\ passing_grade = Rat(6)
    /\ shown = NothingShown
    /\ ViewsRestIdle

\* DatabaseManager.update_class_settings, from the settings form
update_class_settings(pg, system) ==
    /\ passing_grade' = pg
    /\ sys' = system
    /\ shown' = NothingShown
    /\ UNCHANGED <<grades, categories>>
    /\ UNCHANGED viewsRest

\* the create form followed by the grading of the new assignment: the period is
\* the one the form offers under the system of that moment
GradeNewAssignment(g, c, p) ==
    /\ Len(grades) < MaxGrades
    /\ c \in FormCategories(categories)
    /\ p \in FormPeriods(sys)
    /\ grades' = Place(grades, [grade |-> Some(g), category_id |-> c, period |-> p])
    /\ shown' = NothingShown
    /\ UNCHANGED <<categories, sys, passing_grade>>
    /\ UNCHANGED viewsRest

\* the edit form, DatabaseManager.update_assignment with the period it offers
update_assignment(i, p) ==
    /\ i \in 1..Len(grades)
    /\ p \in FormPeriods(sys)
    /\ grades[i].period # p
    /\ grades' = Place(Without(grades, i), [grades[i] EXCEPT !.period = p])
    /\ shown' = NothingShown
    /\ UNCHANGED <<categories, sys, passing_grade>>
    /\ UNCHANGED viewsRest

Draw(v, d) ==
    /\ shown[v] = None
    /\ shown' = [shown EXCEPT ![v] = d]
    /\ UNCHANGED <<grades, categories, sys, passing_grade>>
    /\ UNCHANGED viewsRest

\* teacher_dashboard, Class Gradebook tab: "Final Progress" over every row
ClassGradebook ==
    /\ categories # <<>>
    /\ LET st_final == calculate_average_v3(grades, categories).final_score
       IN  \E f \in Round2(st_final) : Draw("class_gradebook", Drawn(st_final, f, None))

\* the cell of the global gradebooks under the chosen period
GlobalFinal(mode) ==
    IF mode = 0
    THEN LET avgs == PeriodLoop(grades, categories, 1, num_p(sys))
         IN  IF avgs # <<>> THEN MeanOfPeriods(avgs) ELSE Zero
    ELSE calculate_average_v3(p_grades(grades, mode), categories).final_score

\* global_gradebook_page: cells below "passing" are coloured
TeacherGlobalGradebook ==
    \E mode \in PeriodChoices(sys) :
        \E f \in Round2(GlobalFinal(mode)) :
            Draw("teacher_global",
                 Drawn(GlobalFinal(mode), f, Some(PassingOrDefault(passing_grade))))

\* student_dashboard, the student's row of the global gradebook
StudentGlobalGradebook ==
    \E mode \in PeriodChoices(sys) :
        \E f \in Round2(GlobalFinal(mode)) :
            Draw("student_global",
                 Drawn(GlobalFinal(mode), f, Some(PassingOrDefault(passing_grade))))

\* student_dashboard, My Grades: "Annual Total" over every row in an annual
\* class, else "YEAR FINAL" marked against the stored passing grade
MyGrades ==
    /\ grades # <<>>
    /\ IF sys = "annual"
       THEN LET final == calculate_average_v3(grades, categories).final_score
            IN  \E f \in Round2(final) : Draw("my_grades", Drawn(final, f, None))
       ELSE LET avgs == PeriodLoop(grades, categories, 1, num_p(sys))
            IN  /\ avgs # <<>>
                /\ \E f \in Round2(MeanOfPeriods(avgs)) :
                      Draw("my_grades", Drawn(MeanOfPeriods(avgs), f, Some(passing_grade)))

NextViews ==
    \/ \E pg \in FormPassingGrades, system \in ViewSystems : update_class_settings(pg, system)
    \/ \E g \in ViewGradeInputs, c \in CategoryIdOptions, p \in 1..2 : GradeNewAssignment(g, c, p)
    \/ \E i \in 1..MaxGrades, p \in 1..2 : update_assignment(i, p)
    \/ ClassGradebook
    \/ TeacherGlobalGradebook
    \/ StudentGlobalGradebook
    \/ MyGrades

SpecViews == InitViews /\ [][NextViews]_vars

\* C21: in a class whose evaluation system is annual, the views that are drawn
\* (class gradebook, both global gradebooks, My Grades) show the same final
\* figure for a student in a subject
C21_AnnualViewsAgree ==
    sys = "annual"
    => \A v, w \in Views :
          (shown[v] # None /\ shown[w] # None)
          => \/ shown[v][1].final = shown[w][1].final
             \/ shown[v][1].figure = shown[w][1].figure

\* C22: every view that marks a figure against a threshold uses the passing
\* grade stored for the class
C22_ThresholdIsStoredPassingGrade ==
    \A v \in Views :
        (shown[v] # None /\ shown[v][1].threshold # None)
        => shown[v][1].threshold = Some(passing_grade)

----------------------------------------------------------------------------
\* The Assignments and Grading Groups tabs of one subject-offering, run by the
\* sessions of the owner and of a collaborator.  Streamlit runs the script of
\* each session in its own thread: a run first reads cats and all_assigns
\* through the cached readers, then makes the call of the pressed button with
\* values taken from what it read, and ends in st.rerun().  txn holds what the
\* run of each session has read and not yet acted on.

FormSessions == {1, 2}
FormSubject == 1

NoRun == [s \in FormSessions |-> None]

formsRest == <<frontVars, poolVars, shown, users, session_state, school>>

FormsRestIdle ==
    /\ FrontIdle /\ PoolIdle
    /\ shown = <<>> /\ users = {} /\ session_state = <<>> /\ school = <<>>

\* one group of weight 40 was created for the subject-offering
OneGroupTables ==
    [EmptyTables EXCEPT
        !.grading_categories = {[id |-> 1, course_subject_id |-> FormSubject,
                                 name |-> "Homework", weight |-> 40]},
        !.seq.grading_categories = 1]

InitForms ==
    /\ FormsRestIdle
    /\ db = OneGroupTables
    /\ last_op = NoOperation
    /\ cache = NoCache
    /\ txn = NoRun

\* cats = db.get_grading_categories(...); all_assigns =
\* db.get_course_subject_assignments(...)
RunReads(s) ==
    /\ txn[s] = None
    /\ LET cats == Cached("get_grading_categories", FormSubject)
           all_assigns == Cached("get_course_subject_assignments", FormSubject)
       IN  /\ txn' = [txn EXCEPT ![s] = Some([cats |-> {c.id : c \in cats},
                                              all_assigns |-> all_assigns])]
           /\ cache' = [cache EXCEPT
                 !["get_grading_categories"][FormSubject] = Some(cats),
                 !["get_course_subject_assignments"][FormSubject] = Some(all_assigns)]
           /\ last_op' = Operation("assignments_tab", [session |-> s], "ok")
    /\ UNCHANGED db
    /\ UNCHANGED formsRest

\* the run ends in st.rerun(): what it read is dropped
Rerun(s) == txn' = [txn EXCEPT ![s] = None]

\* "Create New Assignment", offered "if cats", with sel_cat_id = c_opts[...]
\* and then DatabaseManager.create_assignment
RunCreates(s, k) ==
    /\ txn[s] # None
    /\ k \in txn[s][1].cats
    /\ CanInsert("assignments")
    /\ db' = [db EXCEPT
          !.assignments = @ \cup {[id |-> NextVal("assignments"),
                                   course_subject_id |-> FormSubject,
                                   category_id |-> Some(k)]},
          !.seq.assignments = @ + 1]
    /\ last_op' = Operation("create_assignment",
          [course_subject_id |-> FormSubject, category_id |-> Some(k)], "ok")
    /\ cache' = Clear({"get_assignments_by_class", "get_course_subject_assignments"})
    /\ Rerun(s)
    /\ UNCHANGED formsRest

\* the groups the run offers for an assignment it lists: every group for an
\* orphan, the other groups for an assignment listed under its group
MoveOptions(run, a) ==
    IF a.category_id = None THEN run.cats
    ELSE IF a.category_id[1] \in run.cats THEN run.cats \ {a.category_id[1]}
    ELSE {}

\* "Assign to" / "Move", then DatabaseManager.update_assignment_category
RunMoves(s, a, k) ==
    /\ txn[s] # None
    /\ a \in txn[s][1].all_assigns
    /\ k \in MoveOptions(txn[s][1], a)
    /\ db' = [db EXCEPT
          !.assignments = {IF x.id = a.id
                           THEN [x EXCEPT !.category_id = Some(k)]
                           ELSE x : x \in @}]
    /\ last_op' = Operation("update_assignment_category",
          [assignment_id |-> a.id, category_id |-> Some(k)], "ok")
    /\ cache' = Clear({})
    /\ Rerun(s)
    /\ UNCHANGED formsRest

\* "Confirm Delete Group", then DatabaseManager.delete_grading_category
RunDeletes(s, k) ==
    /\ txn[s] # None
    /\ k \in txn[s][1].cats
    /\ db' = [db EXCEPT
          !.grading_categories = {c \in @ : c.id # k},
          !.assignments = ClearCategory(@, k)]
    /\ last_op' = [op |-> "delete_grading_category", args |-> [category_id |-> k],
                    out |-> "ok", cleared |-> Referencing(db.assignments, k)]
    /\ cache' = Clear({"get_grading_categories"})
    /\ Rerun(s)
    /\ UNCHANGED formsRest

\* "Create Group", then DatabaseManager.add_grading_category
RunAdds(s, weight) ==
    /\ txn[s] # None
    /\ CanInsert("grading_categories")
    /\ db' = [db EXCEPT
          !.grading_categories = @ \cup {[id |-> NextVal("grading_categories"),
                                          course_subject_id |-> FormSubject,
                                          name |-> "Homework", weight |-> weight]},
          !.seq.grading_categories = @ + 1]
    /\ last_op' = Operation("add_grading_category",
          [course_subject_id |-> FormSubject, name |-> "Homework", weight |-> weight], "ok")
    /\ cache' = Clear({"get_grading_categories"})
    /\ Rerun(s)
    /\ UNCHANGED formsRest

\* no button was pressed: the run draws the page and ends
RunEnds(s) ==
    /\ txn[s] # None
    /\ Rerun(s)
    /\ UNCHANGED dbVars
    /\ UNCHANGED formsRest

\* the rows a run can have read from the assignments of the subject-offering
ListedAssignments ==
    [id : Ids, course_subject_id : {FormSubject}, category_id : CategoryRefs]

NextForms ==
    \/ \E s \in FormSessions : RunReads(s)
    \/ \E s \in FormSessions, k \in Ids : RunCreates(s, k)
    \/ \E s \in FormSessions, a \in ListedAssignments, k \in Ids : RunMoves(s, a, k)
    \/ \E s \in FormSessions, k \in Ids : RunDeletes(s, k)
    \/ \E s \in FormSessions, weight \in EditedWeights : RunAdds(s, weight)
    \/ \E s \in FormSessions : RunEnds(s)

SpecForms == InitForms /\ [][NextForms]_vars

\* C23: the category_id of every assignment is NULL or the id of a grading
\* category that exists
C23_CategoryExists ==
    \A a \in db.assignments :
        a.category_id = None \/ a.category_id[1] \in {c.id : c \in db.grading_categories}

----------------------------------------------------------------------------
\* Registration, approval and login.  users holds the rows of the users table
\* and the value of its SERIAL; session_state holds, per browser session, the
\* entry st.session_state['user'] (None while the key is absent).

BrowserSessions == {1, 2}
Usernames == {"ana", "bo"}
Passwords == {"p", "q"}
RoleChoices == {"Student", "Teacher", "Admin"}

\* str.lower() on the choices of the register page
lower(role) ==
    CASE role = "Student" -> "student"
      [] role = "Teacher" -> "teacher"
      [] role = "Admin" -> "admin"
      [] OTHER -> role

\* hashlib.sha256(password.encode()).hexdigest(): the digest is not the
\* password, and distinct passwords of the model have distinct digests
sha256(password) == <<"sha256", password>>

NoUsers == [rows |-> {}, seq |-> 0]
LoggedOut == [s \in BrowserSessions |-> None]

loginRest == <<frontVars, poolVars, db, cache, shown, school, txn>>

LoginRestIdle ==
    /\ FrontIdle /\ PoolIdle
    /\ db = EmptyTables /\ cache = NoCache
    /\ shown = <<>> /\ school = <<>> /\ txn = <<>>

InitLogin ==
    /\ LoginRestIdle
    /\ users = NoUsers
    /\ session_state = LoggedOut
    /\ last_op = NoOperation

\* "is_active = 1 if role.lower() == 'admin' else 0"
ActiveOnRegister(role) == IF lower(role) = "admin" THEN 1 ELSE 0

\* DatabaseManager.register_user, called by register_page with role.lower():
\* the INSERT takes a value of the SERIAL also when username UNIQUE rejects it
register_user(username, password, role) ==
    /\ users.seq < MaxSerial
    /\ IF \E u \in users.rows : u.username = username
       THEN /\ users' = [users EXCEPT !.seq = @ + 1]
            /\ last_op' = Operation("register_user",
                  [username |-> username, role |-> role], "Username already taken.")
       ELSE /\ users' = [rows |-> users.rows \cup
                            {[id |-> users.seq + 1, username |-> username,
                              password_hash |-> sha256(password), role |-> role,
                              is_active |-> ActiveOnRegister(role)]},
                         seq |-> users.seq + 1]
            /\ last_op' = Operation("register_user",
                  [username |-> username, role |-> role], "ok")
    /\ UNCHANGED session_state
    /\ UNCHANGED loginRest

\* DatabaseManager.verify_user: the row of that username and digest, if any
verify_user(username, password) ==
    LET found == {u \in users.rows :
                    u.username = username /\ u.password_hash = sha256(password)}
    IN  IF found = {} THEN None ELSE Some(CHOOSE u \in found : TRUE)

\* login_page with the test of is_active left out
MayLogin_AnyMatch(user) == user # None

\* "if user: if user['is_active']:"
MayLogin(user) == user # None /\ user[1].is_active # 0

\* login_page, shown by main() while 'user' is not in st.session_state
login_page(s, username, password) ==
    /\ session_state[s] = None
    /\ LET user == verify_user(username, password)
       IN  /\ session_state' =
                 IF MayLogin(user) THEN [session_state EXCEPT ![s] = user]
                 ELSE session_state
           /\ last_op' = Operation("login_page",
                 [session |-> s, username |-> username, password |-> password],
                 IF MayLogin(user) THEN "ok"
                 ELSE IF user # None THEN "pending approval" ELSE "Invalid credentials")
    /\ UNCHANGED users
    /\ UNCHANGED loginRest

\* main(): "del st.session_state['user']"
logout(s) ==
    /\ session_state[s] # None
    /\ session_state' = [session_state EXCEPT ![s] = None]
    /\ last_op' = Operation("logout", [session |-> s], "ok")
    /\ UNCHANGED users
    /\ UNCHANGED loginRest

\* the sessions in which main() shows admin_dashboard
AdminSessions ==
    {s \in BrowserSessions : session_state[s] # None /\ session_state[s][1].role = "admin"}

SetActive(user_id, is_active) ==
    [users EXCEPT !.rows = {IF u.id = user_id THEN [u EXCEPT !.is_active = is_active]
                            ELSE u : u \in @}]

\* DatabaseManager.approve_user, from the pending list of admin_dashboard
approve_user(user_id) ==
    /\ AdminSessions # {}
    /\ users' = SetActive(user_id, 1)
    /\ last_op' = Operation("approve_user", [user_id |-> user_id], "ok")
    /\ UNCHANGED session_state
    /\ UNCHANGED loginRest

\* DatabaseManager.update_user_status, from the toggle admin_dashboard shows
\* for every user but the admin's own
update_user_status(user_id, is_active) ==
    /\ \E s \in AdminSessions : session_state[s][1].id # user_id
    /\ users' = SetActive(user_id, IF is_active THEN 1 ELSE 0)
    /\ last_op' = Operation("update_user_status",
          [user_id |-> user_id, is_active |-> is_active], "ok")
    /\ UNCHANGED session_state
    /\ UNCHANGED loginRest

\* DatabaseManager.delete_user, from admin_dashboard
delete_user(user_id) ==
    /\ AdminSessions # {}
    /\ users' = [users EXCEPT !.rows = {u \in @ : u.id # user_id}]
    /\ last_op' = Operation("delete_user", [user_id |-> user_id], "ok")
    /\ UNCHANGED session_state
    /\ UNCHANGED loginRest

NextLogin ==
    \/ \E n \in Usernames, p \in Passwords, r \in RoleChoices : register_user(n, p, lower(r))
    \/ \E s \in BrowserSessions, n \in Usernames, p \in Passwords : login_page(s, n, p)
    \/ \E s \in BrowserSessions : logout(s)
    \/ \E k \in Ids : approve_user(k)
    \/ \E k \in Ids, b \in BOOLEAN : update_user_status(k, b)
    \/ \E k \in Ids : delete_user(k)

SpecLogin == InitLogin /\ [][NextLogin]_vars

\* the row register_user has just inserted
Registered == {u \in users'.rows : u.id \notin {v.id : v \in users.rows}}

\* C24: register_user creates an admin active and every other role inactive;
\* an account turns from inactive to active only by approve_user or
\* update_user_status; and a session gets its user only from login_page, with a
\* row whose username and password digest match and whose is_active is set
C24_LoginOnlyWhenActive ==
    [][/\ \A u \in Registered :
             /\ last_op'.op = "register_user"
             /\ u.is_active = (IF u.role = "admin" THEN 1 ELSE 0)
       /\ \A u \in users.rows, v \in users'.rows :
             (u.id = v.id /\ u.is_active = 0 /\ v.is_active = 1)
             => last_op'.op \in {"approve_user", "update_user_status"}
       /\ \A s \in BrowserSessions :
             (session_state[s] = None /\ session_state'[s] # None)
             => /\ last_op'.op = "login_page"
                /\ session_state'[s][1] \in users.rows
                /\ session_state'[s][1].username = last_op'.args.username
                /\ session_state'[s][1].password_hash = sha256(last_op'.args.password)
                /\ session_state'[s][1].is_active = 1]_vars

\* a student, registered inactive, holds a session: an admin has activated the
\* account and login_page has accepted its credentials
C24_Witness ==
    \E s \in BrowserSessions :
        /\ session_state[s] # None
        /\ session_state[s][1].role = "student"
        /\ session_state[s][1] \in users.rows

----------------------------------------------------------------------------
\* Join requests of one class.  school holds the rows of join_requests,
\* enrollments and class_collaborators of the class and the value of the SERIAL
\* of join_requests; the owner of the class is OwnerId.  Each session runs its
\* script in its own thread; txn holds how far the run of a session has got:
\* for a requester the place inside request_to_join, whose membership test,
\* SELECT and INSERT are separate statements on two connections, for a teacher
\* or admin the pending list the run has read.

JoinClass == 1
OwnerId == 3
Requesters == {[user_id |-> 1, role |-> "student"], [user_id |-> 2, role |-> "teacher"]}
RequesterSessions == {"tab1", "tab2"}
HandlerSessions == {"teacher", "admin"}
RequestSessions == RequesterSessions \cup HandlerSessions
Decisions == {"approved", "rejected"}

NoRequests ==
    [join_requests |-> {}, enrollments |-> {}, class_collaborators |-> {}, seq |-> 0]

requestsRest == <<frontVars, poolVars, db, cache, shown, users, session_state>>

RequestsRestIdle ==
    /\ FrontIdle /\ PoolIdle
    /\ db = EmptyTables /\ cache = NoCache
    /\ shown = <<>> /\ users = {} /\ session_state = <<>>

InitRequests ==
    /\ RequestsRestIdle
    /\ school = NoRequests
    /\ txn = [s \in RequestSessions |-> None]
    /\ last_op = NoOperation

\* DatabaseManager.is_user_in_class: owner, enrolled student or collaborator
is_user_in_class(sch, user_id) ==
    \/ user_id = OwnerId
    \/ <<user_id, JoinClass>> \in sch.enrollments
    \/ <<user_id, JoinClass>> \in sch.class_collaborators

PendingOf(sch, user_id) ==
    {r \in sch.join_requests : r.user_id = user_id /\ r.status = "pending"}

\* request_to_join, step 1: "in_class, msg = self.is_user_in_class(...)"
RequestChecks(s, u) ==
    /\ txn[s] = None
    /\ IF is_user_in_class(school, u.user_id)
       THEN /\ txn' = txn
            /\ last_op' = Operation("request_to_join", u, "already in class")
       ELSE /\ txn' = [txn EXCEPT ![s] = Some([at |-> "checked", user |-> u])]
            /\ last_op' = Operation("is_user_in_class", u, "no")
    /\ UNCHANGED school
    /\ UNCHANGED requestsRest

\* request_to_join, step 2: "SELECT 1 FROM join_requests ... status='pending'"
RequestSelects(s) ==
    /\ txn[s] # None
    /\ txn[s][1].at = "checked"
    /\ IF PendingOf(school, txn[s][1].user.user_id) # {}
       THEN /\ txn' = [txn EXCEPT ![s] = None]
            /\ last_op' = Operation("request_to_join", txn[s][1].user, "already pending")
       ELSE /\ txn' = [txn EXCEPT ![s] = Some([txn[s][1] EXCEPT !.at = "selected"])]
            /\ last_op' = Operation("select_pending", txn[s][1].user, "none")
    /\ UNCHANGED school
    /\ UNCHANGED requestsRest

\* request_to_join, step 3: "INSERT INTO join_requests ..." and commit; the
\* table has no UNIQUE constraint and status defaults to 'pending'
RequestInserts(s) ==
    /\ txn[s] # None
    /\ txn[s][1].at = "selected"
    /\ school.seq < MaxSerial
    /\ school' = [school EXCEPT
          !.join_requests = @ \cup {[id |-> school.seq + 1,
                                     user_id |-> txn[s][1].user.user_id,
                                     role |-> txn[s][1].user.role,
                                     status |-> "pending"]},
          !.seq = @ + 1]
    /\ txn' = [txn EXCEPT ![s] = None]
    /\ last_op' = Operation("request_to_join", txn[s][1].user, "ok")
    /\ UNCHANGED requestsRest

\* the run of a teacher or admin page reads the pending requests
HandlerReads(s) ==
    /\ txn[s] = None
    /\ \E r \in school.join_requests : r.status = "pending"
    /\ txn' = [txn EXCEPT ![s] =
          Some([at |-> "listed",
                reqs |-> {r.id : r \in {x \in school.join_requests : x.status = "pending"}}])]
    /\ last_op' = Operation("get_pending_requests", [session |-> s], "ok")
    /\ UNCHANGED school
    /\ UNCHANGED requestsRest

\* "UPDATE join_requests SET status = %s WHERE id = %s", then for 'approved' the
\* INSERT ... ON CONFLICT DO NOTHING into enrollments or class_collaborators
Decide(sch, req, action) ==
    [sch EXCEPT
        !.join_requests = {IF r.id = req.id THEN [r EXCEPT !.status = action] ELSE r : r \in @},
        !.enrollments = IF action = "approved" /\ req.role = "student"
                        THEN @ \cup {<<req.user_id, JoinClass>>} ELSE @,
        !.class_collaborators = IF action = "approved" /\ req.role # "student"
                                THEN @ \cup {<<req.user_id, JoinClass>>} ELSE @]

\* the button of a listed request, then DatabaseManager.handle_request and
\* st.rerun()
handle_request(s, request_id, action) ==
    /\ txn[s] # None
    /\ txn[s][1].at = "listed"
    /\ request_id \in txn[s][1].reqs
    /\ LET found == {r \in school.join_requests : r.id = request_id}
       IN  IF found = {}
           THEN /\ school' = school
                /\ last_op' = Operation("handle_request",
                      [request_id |-> request_id, action |-> action], FALSE)
           ELSE /\ school' = Decide(school, CHOOSE r \in found : TRUE, action)
                /\ last_op' = Operation("handle_request",
                      [request_id |-> request_id, action |-> action], TRUE)
    /\ txn' = [txn EXCEPT ![s] = None]
    /\ UNCHANGED requestsRest

\* no button was pressed: the run of the page ends
HandlerEnds(s) ==
    /\ txn[s] # None
    /\ txn[s][1].at = "listed"
    /\ txn' = [txn EXCEPT ![s] = None]
    /\ UNCHANGED <<school, last_op>>
    /\ UNCHANGED requestsRest

NextRequests ==
    \/ \E s \in RequesterSessions, u \in Requesters : RequestChecks(s, u)
    \/ \E s \in RequesterSessions : RequestSelects(s)
    \/ \E s \in RequesterSessions : RequestInserts(s)
    \/ \E s \in HandlerSessions : HandlerReads(s)
    \/ \E s \in HandlerSessions, k \in Ids, action \in Decisions : handle_request(s, k, action)
    \/ \E s \in HandlerSessions : HandlerEnds(s)

SpecRequests == InitRequests /\ [][NextRequests]_vars

\* the requests a step has inserted
NewRequests == {r \in school'.join_requests : r.id \notin {x.id : x \in school.join_requests}}

\* C25: a user has at most one pending request for the class, and no request
\* is created for the owner, an enrolled student or a collaborator of the class
C25_OnePendingAndNoneForMembers ==
    [][/\ \A u \in Requesters : Cardinality(PendingOf(school', u.user_id)) <= 1
       /\ \A r \in NewRequests : ~is_user_in_class(school, r.user_id)]_vars

\* C26: handle_request on a request that is no longer pending changes neither
\* its status nor the enrollments and collaborators
C26_DecidedAtMostOnce ==
    [][last_op'.op = "handle_request"
       => \A r \in school.join_requests :
             (r.id = last_op'.args.request_id /\ r.status # "pending")
             => school' = school]_vars

----------------------------------------------------------------------------
\* Deleting an assignment.  submissions.assignment_id and grades.assignment_id
\* are FOREIGN KEY ... REFERENCES assignments(id) with no ON DELETE clause:
\* PostgreSQL checks them at the end of the DELETE on assignments and raises
\* when a row still refers to a deleted assignment.

\* the rows of submissions and grades that refer to the assignment
RefersToAssignment(assignment_id) ==
    {r \in db.submissions \cup db.grades : r.assignment_id = assignment_id}

\* "DELETE FROM assignments WHERE id = %s" raises ForeignKeyViolation
DeleteAssignmentRaises(assignment_id) ==
    AssignmentExists(assignment_id) /\ RefersToAssignment(assignment_id) # {}

\* DatabaseManager.delete_assignment: the three DELETEs and the commit; when
\* the first raises, get_connection rolls back and re-raises, and the two
\* clear() calls after the with block are not reached
delete_assignment(assignment_id) ==
    /\ IF DeleteAssignmentRaises(assignment_id)
       THEN /\ db' = db
            /\ last_op' = Operation("delete_assignment",
                  [assignment_id |-> assignment_id], "raised")
            /\ cache' = cache
       ELSE /\ db' = [db EXCEPT
                  !.assignments = {a \in @ : a.id # assignment_id},
                  !.submissions = {r \in @ : r.assignment_id # assignment_id},
                  !.grades = {g \in @ : g.assignment_id # assignment_id}]
            /\ last_op' = Operation("delete_assignment",
                  [assignment_id |-> assignment_id], "ok")
            /\ cache' = Clear({"get_assignments_by_class", "get_course_subject_assignments"})
    /\ UNCHANGED dbRest

InitDelete ==
    /\ DbRestIdle
    /\ db \in {UngradedTables(n) : n \in 1..MaxSerial}
    /\ last_op = NoOperation
    /\ cache = NoCache

NextDelete ==
    \/ \E a \in Ids, s \in Students : submit_assignment(a, s)
    \/ \E a \in Ids, s \in Students, g \in GradeInputs, f \in Feedbacks :
          grade_assignment_direct(a, s, g, f)
    \/ \E a \in Ids : delete_assignment(a)

SpecDelete == InitDelete /\ [][NextDelete]_vars

\* C27: delete_assignment(a) ends without error; afterwards no assignment,
\* submission or grade of a exists and the rows of other assignments are as
\* they were
C27_DeleteAssignmentCompletes ==
    [][last_op'.op = "delete_assignment"
       => LET a == last_op'.args.assignment_id
          IN  /\ last_op'.out = "ok"
              /\ \A r \in db'.assignments : r.id # a
              /\ \A r \in db'.submissions \cup db'.grades : r.assignment_id # a
              /\ db'.assignments = {r \in db.assignments : r.id # a}
              /\ db'.submissions = {r \in db.submissions : r.assignment_id # a}
              /\ db'.grades = {r \in db.grades : r.assignment_id # a}]_vars

----------------------------------------------------------------------------
\* Deleting a class.  school holds the tables that refer to a class directly
\* (course_subjects, enrollments, class_collaborators, join_requests,
\* announcements) and materials; db holds grading_categories, assignments,
\* submissions and grades of the subject-offerings.  Of the foreign keys on
\* classes(id) only that of course_subjects is ON DELETE CASCADE; those of
\* enrollments, class_collaborators, join_requests and announcements, and
\* those of submissions and grades on assignments(id), have no ON DELETE.

ClassIds == {1}
ClassStudent == 1
ClassTeacher == 2

\* a class with one subject linked: course_subject c belongs to class c
OneClass ==
    [classes |-> ClassIds,
     course_subjects |-> {[id |-> c, class_id |-> c] : c \in ClassIds},
     enrollments |-> {}, class_collaborators |-> {}, join_requests |-> {},
     announcements |-> {}, materials |-> {}]

classRest == <<frontVars, poolVars, shown, users, session_state, txn>>

ClassRestIdle ==
    /\ FrontIdle /\ PoolIdle
    /\ shown = <<>> /\ users = {} /\ session_state = <<>> /\ txn = <<>>

InitClass ==
    /\ ClassRestIdle
    /\ school = OneClass
    /\ db = EmptyTables
    /\ last_op = NoOperation
    /\ cache = NoCache

\* an INSERT of one row that refers to an existing class or subject-offering
AddRow(table, row, op) ==
    /\ row \notin school[table]
    /\ school' = [school EXCEPT ![table] = @ \cup {row}]
    /\ last_op' = Operation(op, row, "ok")
    /\ UNCHANGED <<db, cache>>
    /\ UNCHANGED classRest

\* DatabaseManager.enroll_student_by_id
enroll_student_by_id(student_id, class_id) ==
    /\ class_id \in school.classes
    /\ AddRow("enrollments", [student_id |-> student_id, course_id |-> class_id],
              "enroll_student_by_id")

\* DatabaseManager.add_collaborator_by_id
add_collaborator_by_id(teacher_id, class_id) ==
    /\ class_id \in school.classes
    /\ AddRow("class_collaborators", [teacher_id |-> teacher_id, class_id |-> class_id],
              "add_collaborator_by_id")

\* DatabaseManager.request_to_join by one session, for a user not in the class
\* and without a pending request
JoinRequest(user_id, class_id) ==
    /\ class_id \in school.classes
    /\ [student_id |-> user_id, course_id |-> class_id] \notin school.enrollments
    /\ AddRow("join_requests", [user_id |-> user_id, class_id |-> class_id,
                                status |-> "pending"], "request_to_join")

\* DatabaseManager.create_announcement
create_announcement(class_id, teacher_id) ==
    /\ class_id \in school.classes
    /\ AddRow("announcements", [class_id |-> class_id, teacher_id |-> teacher_id],
              "create_announcement")

\* DatabaseManager.add_material
add_material(cs_id) ==
    /\ cs_id \in {cs.id : cs \in school.course_subjects}
    /\ AddRow("materials", [course_subject_id |-> cs_id], "add_material")

\* "SELECT id FROM course_subjects WHERE class_id = %s"
cs_ids(class_id) == {cs.id : cs \in {x \in school.course_subjects : x.class_id = class_id}}

AssignmentsOf(css) == {a.id : a \in {x \in db.assignments : x.course_subject_id \in css}}

\* the statement of delete_class that raises ForeignKeyViolation, if one does:
\* "DELETE FROM assignments" while a submission refers to one of them (the
\* grades were deleted just before), or "DELETE FROM classes" while a
\* collaborator, join request or announcement refers to the class (the
\* enrollments were deleted just before)
DeleteClassRaises(class_id) ==
    \/ \E r \in db.submissions : r.assignment_id \in AssignmentsOf(cs_ids(class_id))
    \/ /\ class_id \in school.classes
       /\ \E r \in school.class_collaborators \cup school.join_requests
                   \cup school.announcements : r.class_id = class_id

\* DatabaseManager.delete_class: one transaction; when a statement raises,
\* get_connection rolls every DELETE back and re-raises
delete_class(class_id) ==
    /\ IF DeleteClassRaises(class_id)
       THEN /\ UNCHANGED <<db, school>>
            /\ last_op' = Operation("delete_class", [class_id |-> class_id], "raised")
       ELSE /\ db' = [db EXCEPT
                  !.grades = {g \in @ : g.assignment_id \notin AssignmentsOf(cs_ids(class_id))},
                  !.assignments = {a \in @ : a.course_subject_id \notin cs_ids(class_id)},
                  !.grading_categories = {c \in @ : c.course_subject_id \notin cs_ids(class_id)}]
            /\ school' = [school EXCEPT
                  !.materials = {m \in @ : m.course_subject_id \notin cs_ids(class_id)},
                  !.course_subjects = {cs \in @ : cs.class_id # class_id},
                  !.enrollments = {r \in @ : r.course_id # class_id},
                  !.classes = @ \ {class_id}]
            /\ last_op' = Operation("delete_class", [class_id |-> class_id], "ok")
    /\ UNCHANGED cache
    /\ UNCHANGED classRest

\* the subject-offerings that exist
LinkedSubjects == {cs.id : cs \in school.course_subjects}

NextClass ==
    \/ \E c \in ClassIds : enroll_student_by_id(ClassStudent, c)
    \/ \E c \in ClassIds : add_collaborator_by_id(ClassTeacher, c)
    \/ \E c \in ClassIds : JoinRequest(ClassStudent, c)
    \/ \E c \in ClassIds : create_announcement(c, ClassTeacher)
    \/ \E cs \in LinkedSubjects : add_material(cs)
    \/ \E cs \in LinkedSubjects : create_assignment(cs, None)
    \/ \E a \in Ids : submit_assignment(a, ClassStudent)
    \/ \E a \in Ids, g \in GradeInputs : grade_assignment_direct(a, ClassStudent, g, "ok")
    \/ \E c \in ClassIds : delete_class(c)

SpecClass == InitClass /\ [][NextClass]_vars

\* the rows of any table that refer to the class, directly or through one of
\* the subject-offerings it had
RowsOfClass(sch, d, class_id, css) ==
    LET assigns == {a.id : a \in {x \in d.assignments : x.course_subject_id \in css}}
    IN  [classes |-> sch.classes \cap {class_id},
         course_subjects |-> {r \in sch.course_subjects : r.class_id = class_id},
         enrollments |-> {r \in sch.enrollments : r.course_id = class_id},
         class_collaborators |-> {r \in sch.class_collaborators : r.class_id = class_id},
         join_requests |-> {r \in sch.join_requests : r.class_id = class_id},
         announcements |-> {r \in sch.announcements : r.class_id = class_id},
         materials |-> {r \in sch.materials : r.course_subject_id \in css},
         grading_categories |-> {r \in d.grading_categories : r.course_subject_id \in css},
         assignments |-> {r \in d.assignments : r.course_subject_id \in css},
         submissions |-> {r \in d.submissions : r.assignment_id \in assigns},
         grades |-> {r \in d.grades : r.assignment_id \in assigns}]

NoRows == [t \in DOMAIN RowsOfClass(OneClass, EmptyTables, 1, {}) |-> {}]

\* C28: delete_class(c) ends without error and leaves no row of any table
\* that refers to class c; if it fails, none of its deletions persist
C28_DeleteClassCompletes ==
    [][last_op'.op = "delete_class"
       => LET c == last_op'.args.class_id
          IN  /\ last_op'.out = "ok"
              /\ RowsOfClass(school', db', c, cs_ids(c)) = NoRows
              /\ last_op'.out = "raised" => (db' = db /\ school' = school)]_vars

====
